---- MODULE Spec2Model ----
(***************************************************************************)
(* Model of the synthesis and timeline-mixing engine of src/main.py:       *)
(* the Pitch Resolver (note_to_freq), the voice generators as far as the   *)
(* length, silence and failure of their output goes, and the Timeline      *)
(* Renderer loop of generate_edm_from_yaml.                                *)
(*                                                                         *)
(* Time.  Every time the renderer computes is a multiple of half a beat    *)
(* (drum_dur = beat_duration * 0.5, and the note durations used here are   *)
(* multiples of 0.5 beats), so a time is kept as an integer number of      *)
(* half-beat "ticks"; t ticks are t * 60 / (tempo * TicksPerBeat) seconds. *)
(* The arithmetic is exact: the rounding of IEEE doubles is not modelled.  *)
(*                                                                         *)
(* Audio.  A buffer is kept as its length in samples and a flag telling    *)
(* whether every sample is zero; sample values are not modelled.           *)
(*                                                                         *)
(* The statements after the section loop (sidechain, soft clip, peak       *)
(* normalization, quantization, file write) follow the renderer in Spec.   *)
(* Sample values are modelled where a function is taken on its own, on     *)
(* buffers of a few samples and in fixed point: apply_sidechain            *)
(* (SidechainSpec), the mastering statements (MasterSpec), apply_envelope  *)
(* (EnvelopeSpec); OrderSpec follows numpy's process-wide random generator *)
(* through several renderings of one section.                              *)
(***************************************************************************)
EXTENDS Integers, Sequences, FiniteSets, TLC

\* ---------------------------------------------------------------- bounds
MaxSections == 2
MaxTracks == 2

\* ------------------------------------------------------ program constants
FS == 44100
TicksPerBeat == 2
BeatsPerBar == 4
DefaultOctave == 4
ImpactBeats == 2

Tempos == {120, 130}
BarChoices == {1, 2}

\* ------------------------------------------------------------- characters
Digits == {"0", "1", "2", "3", "4", "5", "6", "7", "8", "9"}

DigitVal(c) ==
    CASE c = "0" -> 0 [] c = "1" -> 1 [] c = "2" -> 2 [] c = "3" -> 3
      [] c = "4" -> 4 [] c = "5" -> 5 [] c = "6" -> 6 [] c = "7" -> 7
      [] c = "8" -> 8 [] c = "9" -> 9

Upper(c) ==
    CASE c = "a" -> "A" [] c = "b" -> "B" [] c = "c" -> "C" [] c = "d" -> "D"
      [] c = "e" -> "E" [] c = "f" -> "F" [] c = "g" -> "G"
      [] c = "r" -> "R" [] c = "s" -> "S" [] c = "t" -> "T"
      [] OTHER -> c

Lower(c) ==
    CASE c = "A" -> "a" [] c = "B" -> "b" [] c = "C" -> "c" [] c = "D" -> "d"
      [] c = "E" -> "e" [] c = "F" -> "f" [] c = "G" -> "g"
      [] OTHER -> c

UpperStr(s) == [i \in 1..Len(s) |-> Upper(s[i])]

\* A note token is the sequence of its characters.
RestToken == <<"r", "e", "s", "t">>
EmptyToken == <<>>

\* ------------------------------------------------------------ note_to_freq
NOTES == << <<"C">>, <<"C", "#">>, <<"D">>, <<"D", "#">>, <<"E">>, <<"F">>,
            <<"F", "#">>, <<"G">>, <<"G", "#">>, <<"A">>, <<"A", "#">>, <<"B">> >>

\* NOTES.index(name): the 0-based index, or -1 where Python raises ValueError.
NotesIndex(name) ==
    IF \E i \in 1..Len(NOTES) : NOTES[i] = name
    THEN (CHOOSE i \in 1..Len(NOTES) : NOTES[i] = name) - 1
    ELSE -1

\* A frequency is kept as its distance in semitones from A4 = 440 Hz:
\* hz = 440 * 2^(semis / 12); zero = TRUE is 0 Hz; ok = FALSE is the
\* ValueError raised by NOTES.index.
FreqZero == [ok |-> TRUE, zero |-> TRUE, semis |-> 0]
FreqError == [ok |-> FALSE, zero |-> FALSE, semis |-> 0]
FreqOf(octave, semitones) ==
    [ok |-> TRUE, zero |-> FALSE, semis |-> 12 * (octave - DefaultOctave) + (semitones - 9)]

\* The flat of the letter at base_idx: one semitone down, wrapping below C.
FlatIndex_NoWrap(base_idx) == base_idx - 1
FlatIndex(base_idx) == (base_idx - 1) % 12

\* Mutant of note_to_freq: a name that is not in NOTES is taken for a rest.
note_to_freq_Lenient(note) ==
    IF note = RestToken \/ note = EmptyToken
    THEN FreqZero
    ELSE LET last == note[Len(note)]
             octave == IF last \in Digits THEN DigitVal(last) ELSE DefaultOctave
             note_name == IF last \in Digits THEN SubSeq(note, 1, Len(note) - 1) ELSE note
         IN IF Len(note_name) > 1 /\ Lower(note_name[2]) = "b"
            THEN LET base_idx == NotesIndex(<<Upper(note_name[1])>>)
                 IN IF base_idx < 0 THEN FreqZero
                    ELSE FreqOf(octave, FlatIndex(base_idx))
            ELSE LET semitones == NotesIndex(UpperStr(note_name))
                 IN IF semitones < 0 THEN FreqZero
                    ELSE FreqOf(octave, semitones)

note_to_freq(note) ==
    IF note = RestToken \/ note = EmptyToken
    THEN FreqZero
    ELSE LET last == note[Len(note)]
             octave == IF last \in Digits THEN DigitVal(last) ELSE DefaultOctave
             note_name == IF last \in Digits THEN SubSeq(note, 1, Len(note) - 1) ELSE note
         IN IF Len(note_name) > 1 /\ Lower(note_name[2]) = "b"
            THEN LET base_idx == NotesIndex(<<Upper(note_name[1])>>)
                 IN IF base_idx < 0 THEN FreqError
                    ELSE FreqOf(octave, FlatIndex(base_idx))
            ELSE LET semitones == NotesIndex(UpperStr(note_name))
                 IN IF semitones < 0 THEN FreqError
                    ELSE FreqOf(octave, semitones)


\* ------------------------------------------------------------------ state
VARIABLES
    tempo,         \* data["tempo"], beats per minute
    bars,          \* section["bars"] of every section of data["sections"]
    audio,         \* the master buffer
    kick_times,    \* the Kick Trigger List, in ticks
    kick_runs,     \* history: for every kick track started, its section and
                   \* the index in kick_times where its triggers begin
    current_time,  \* in ticks
    sec,           \* position of the loop over data["sections"], from 1
    ntracks,       \* tracks of the current section already started
    track,         \* the track being rendered
    pc,            \* where generate_edm_from_yaml stands
    bar, beat,     \* the drum loops' counters (the iteration last entered)
    velocity,
    hit_time,      \* in ticks
    pos,           \* the melodic cursor, in ticks
    idx,           \* the melodic step counter, kept modulo Period(track)
    note_dur,      \* in ticks
    freq,          \* result of note_to_freq
    wave,          \* the voice buffer last generated for the current track
    start_sample,
    note,          \* the token handed to the Pitch Resolver
    stages,        \* history: the post-processing stages run so far, in order
    mix,           \* a master buffer with its sample values (MasterSpec)
    sc,            \* the locals of apply_sidechain (SidechainSpec)
    env,           \* the locals of apply_envelope (EnvelopeSpec)
    ord,           \* two renderings of one section (OrderSpec)
    arp,           \* the locals of generate_arp (ArpSpec)
    place          \* one accumulation, in Python's float arithmetic (PlacementSpec)

vars == <<tempo, bars, audio, kick_times, kick_runs, current_time, sec, ntracks, track, pc,
          bar, beat, velocity, hit_time, pos, idx, note_dur, freq, wave,
          start_sample, note, stages, mix, sc, env, ord, arp, place>>

\* The variables of the renderer, and those of the functions modelled on
\* their own sample by sample.
render_vars == <<tempo, bars, audio, kick_times, kick_runs, current_time, sec, ntracks,
                 track, bar, beat, velocity, hit_time, pos, idx, note_dur, freq, wave,
                 start_sample, note, stages>>
NoMix == [samples |-> <<>>]
NoSc == [envelope |-> <<>>]
NoEnv == [envelope |-> <<>>]
NoOrd == [tracks |-> <<>>]
NoArp == [wave |-> <<>>]
NoPlace == [kind |-> "none"]

\* ------------------------------------------------------------ time, length
\* Mutant of NumSamples: round(t * fs) in place of int(t * fs).
NumSamples_Rounded(t) ==
    (2 * t * 60 * FS + tempo * TicksPerBeat) \div (2 * tempo * TicksPerBeat)

\* int(t * fs) for a time of t ticks: t * beat_duration / TicksPerBeat seconds
\* with beat_duration = 60 / tempo.
NumSamples(t) == (t * 60 * FS) \div (tempo * TicksPerBeat)

beat_duration == TicksPerBeat
bar_duration == beat_duration * BeatsPerBar

RECURSIVE SumBars(_, _)
SumBars(bs, n) == IF n = 0 THEN 0 ELSE SumBars(bs, n - 1) + bs[n] * bar_duration

total_duration(bs) == SumBars(bs, Len(bs))

\* ------------------------------------------------------------ voice buffers
\* ok = FALSE: the call raised instead of returning.  apply_envelope, the
\* fixed-cutoff filters and the scalings keep a buffer's length and leave
\* zeros zero; they are taken to return for every length, 0 included.
\* automated names the automation curve the buffer went through, "" for none.
Zeros(n) == [ok |-> TRUE, len |-> n, silent |-> TRUE, automated |-> ""]
Sound(n) == [ok |-> TRUE, len |-> n, silent |-> (n = 0), automated |-> ""]
WaveError == [ok |-> FALSE, len |-> 0, silent |-> TRUE, automated |-> ""]

\* apply_automation: the buffer times a gain curve of the same length,
\* which is all ones for a name that is none of the four curves.
apply_automation(w, automation_type) == [w EXCEPT !.automated = automation_type]

\* apply_lowpass: a scalar cutoff designs the filter directly; a cutoff array
\* goes through np.median and np.max, which have no value on an empty array
\* (median is nan, rejected by butter; max raises).
apply_lowpass(w, cutoff_is_array, cutoff_len) ==
    IF cutoff_is_array /\ cutoff_len = 0 THEN WaveError ELSE w

generate_kick(duration) == Sound(NumSamples(duration))
generate_hihat(duration) == Sound(NumSamples(duration))
generate_snare(duration) == Sound(NumSamples(duration))
generate_clap(duration) == Sound(NumSamples(duration))
generate_percussion(duration) == Sound(NumSamples(duration))

generate_bass(f, duration) ==
    IF f.zero THEN Zeros(NumSamples(duration)) ELSE Sound(NumSamples(duration))
generate_sub_bass(f, duration) ==
    IF f.zero THEN Zeros(NumSamples(duration)) ELSE Sound(NumSamples(duration))
generate_melody(f, duration) ==
    IF f.zero THEN Zeros(NumSamples(duration)) ELSE Sound(NumSamples(duration))
\* Mutant of generate_pad: the "if freq == 0" early return left out.
generate_pad_NoRestCheck(f, duration) == Sound(NumSamples(duration))

generate_pad(f, duration) ==
    IF f.zero THEN Zeros(NumSamples(duration)) ELSE Sound(NumSamples(duration))
generate_pluck(f, duration) ==
    IF f.zero THEN Zeros(NumSamples(duration)) ELSE Sound(NumSamples(duration))
generate_arp(f, duration) ==
    IF f.zero THEN Zeros(NumSamples(duration)) ELSE Sound(NumSamples(duration))
generate_reese_bass(f, duration) ==
    IF f.zero THEN Zeros(NumSamples(duration))
    ELSE apply_lowpass(Sound(NumSamples(duration)), FALSE, 1)
generate_supersaw(f, duration) ==
    IF f.zero THEN Zeros(NumSamples(duration))
    ELSE apply_lowpass(Sound(NumSamples(duration)), TRUE, NumSamples(duration))
generate_future_bass(f, duration) ==
    IF f.zero THEN Zeros(NumSamples(duration))
    ELSE apply_lowpass(Sound(NumSamples(duration)), TRUE, NumSamples(duration))
generate_pluck_bass(f, duration) ==
    IF f.zero THEN Zeros(NumSamples(duration))
    ELSE apply_lowpass(Sound(NumSamples(duration)), TRUE, NumSamples(duration))
generate_dubstep_bass(f, duration) ==
    IF f.zero THEN Zeros(NumSamples(duration))
    ELSE apply_lowpass(Sound(NumSamples(duration)), TRUE, NumSamples(duration))

generate_sweep(duration) == Sound(NumSamples(duration))
generate_white_noise_riser(duration) ==
    apply_lowpass(Sound(NumSamples(duration)), TRUE, NumSamples(duration))
generate_impact(duration) == Sound(NumSamples(duration))

\* freq_curve of generate_pitch_bend_bass, by its first and last value: the
\* exponential glide between two pitches, or the one pitch that is not a rest.
freq_curve(start_freq, end_freq) ==
    IF ~start_freq.zero /\ ~end_freq.zero
    THEN [first |-> start_freq, last |-> end_freq]
    ELSE IF ~start_freq.zero
    THEN [first |-> start_freq, last |-> start_freq]
    ELSE [first |-> end_freq, last |-> end_freq]

\* Mutant of generate_pitch_bend_bass: one rest is enough for silence.
generate_pitch_bend_bass_AnyRest(start_note, end_note, duration) ==
    LET start_freq == note_to_freq(start_note)
        end_freq == note_to_freq(end_note)
    IN IF ~start_freq.ok \/ ~end_freq.ok THEN WaveError
       ELSE IF start_freq.zero \/ end_freq.zero THEN Zeros(NumSamples(duration))
       ELSE Sound(NumSamples(duration))

generate_pitch_bend_bass(start_note, end_note, duration) ==
    LET start_freq == note_to_freq(start_note)
        end_freq == note_to_freq(end_note)
    IN IF ~start_freq.ok \/ ~end_freq.ok THEN WaveError
       ELSE IF start_freq.zero /\ end_freq.zero THEN Zeros(NumSamples(duration))
       ELSE Sound(NumSamples(duration))


\* ------------------------------------------------------------------ score
\* A pattern entry: a number (YAML int, or bool, which Python counts as an
\* int) or any other value, of which only the truth value is used.
Num(v) == [num |-> TRUE, v |-> v, truthy |-> (v # 0)]
Other(t) == [num |-> FALSE, v |-> 0, truthy |-> t]

Track(type, pattern, notes, durations, bend_notes) ==
    [type |-> type, pattern |-> pattern, notes |-> notes,
     durations |-> durations, bend_notes |-> bend_notes]

NoTrack == Track("none", <<>>, <<>>, <<>>, <<>>)

\* A track with an "automation" key, and track.get("automation", None),
\* with "" for None.
WithAutomation(tr, name) == tr @@ [automation |-> name]
Automation(tr) == IF "automation" \in DOMAIN tr THEN tr.automation ELSE ""

DrumTypes == {"kick", "hihat", "snare", "clap", "percussion"}
MelodicTypes == {"bass", "sub_bass", "melody", "pad", "pluck", "arp", "supersaw",
                 "future_bass", "reese_bass", "pluck_bass", "dubstep_bass",
                 "pitch_bend_bass"}

\* An entry of durations is dur_beats * beat_duration in ticks: 2 is one
\* beat, 1 half a beat.
DrumTracks ==
    { Track("kick", <<Num(1), Num(0), Num(1), Num(0)>>, <<>>, <<>>, <<>>),
      Track("hihat", <<Num(1), Num(0), Num(1), Num(0), Num(1)>>, <<>>, <<>>, <<>>),
      Track("snare", <<Num(0), Num(1), Num(0), Num(0), Num(0), Num(0), Num(1), Num(0)>>,
            <<>>, <<>>, <<>>),
      Track("clap", <<Other(TRUE), Num(-1), Other(FALSE)>>, <<>>, <<>>, <<>>),
      Track("percussion", <<Num(1)>>, <<>>, <<>>, <<>>) }

AutomationNames == <<"fade_in", "fade_out", "swell", "pulse", "none">>
AutomatedRoles ==
    <<"bass", "sub_bass", "melody", "pad", "pluck", "arp", "supersaw",
      "future_bass", "reese_bass", "pluck_bass", "dubstep_bass">>

MelodicTracks ==
    { Track("bass", <<>>, << <<"A", "4">>, RestToken >>, <<2, 2, 4>>, <<>>),
      Track("sub_bass", <<>>, << <<"c", "1">> >>, <<3>>, <<>>),
      Track("melody", <<>>, << <<"A">>, RestToken >>, <<0>>, <<>>),
      Track("pad", <<>>, << EmptyToken >>, <<24>>, <<>>),
      Track("pluck", <<>>, << <<"E", "#", "4">> >>, <<8>>, <<>>),
      Track("arp", <<>>, << <<"B", "b", "3">>, <<"C", "b", "4">> >>, <<0, 4>>, <<>>),
      Track("supersaw", <<>>, << <<"C", "4">> >>, <<0, 8>>, <<>>),
      Track("supersaw", <<>>, << RestToken >>, <<0, 8>>, <<>>),
      Track("future_bass", <<>>, << <<"F", "#", "2">> >>, <<8>>, <<>>),
      Track("reese_bass", <<>>, << <<"D", "2">> >>, <<0, 16>>, <<>>),
      Track("pluck_bass", <<>>, << <<"G", "2">> >>, <<5>>, <<>>),
      Track("dubstep_bass", <<>>, << <<"C", "1">>, RestToken >>, <<4>>, <<>>) }
    \cup
    { WithAutomation(Track(AutomatedRoles[i], <<>>, << <<"C", "3">> >>, <<8>>, <<>>),
                     AutomationNames[((i - 1) % Len(AutomationNames)) + 1]) :
        i \in 1..Len(AutomatedRoles) }

BendTracks ==
    { Track("pitch_bend_bass", <<>>, << <<"C", "2">>, RestToken >>, <<6>>,
            << <<"E", "2">>, RestToken >>),
      Track("pitch_bend_bass", <<>>, << RestToken >>, <<0, 4>>, <<>>),
      Track("pitch_bend_bass", <<>>, << <<"C", "2">>, RestToken >>, <<4>>,
            << RestToken, <<"G", "2">>, <<"G", "2">> >>),
      Track("pitch_bend_bass", <<>>, << <<"D", "2">> >>, <<8>>, <<>>),
      WithAutomation(Track("pitch_bend_bass", <<>>, << <<"C", "2">> >>, <<8>>,
                           << <<"E", "2">> >>), "fade_in") }

SweepTracks ==
    { Track("sweep", <<>>, <<>>, <<>>, <<>>),
      Track("sweep", <<Num(1), Num(0)>>, <<>>, <<>>, <<>>) }
RiserTracks == { Track("white_noise_riser", <<>>, <<>>, <<>>, <<>>) }
ImpactTracks == { Track("impact", <<Num(1), Num(1)>>, <<>>, <<>>, <<>>) }
OtherTracks ==
    { Track("crash", <<Num(1)>>, <<>>, <<>>, <<>>),
      Track("riser", <<Num(1)>>, <<>>, <<>>, <<>>),
      Track("downlifter", <<Num(1)>>, <<>>, <<>>, <<>>) }

\* ---------------------------------------------------------------- helpers
RECURSIVE Gcd(_, _)
Gcd(a, b) == IF b = 0 THEN a ELSE Gcd(b, a % b)
Lcm(a, b) == (a * b) \div Gcd(a, b)
Max(a, b) == IF a >= b THEN a ELSE b

\* idx is only ever read modulo the lengths of notes, durations and
\* bend_notes; it is kept modulo their common period.
Period(tr) ==
    Lcm(Lcm(Len(tr.notes), Len(tr.durations)), Max(Len(tr.bend_notes), 1))

num_bars == bars[sec]
section_duration == num_bars * bar_duration

\* audio[start : start + len(w)] += w.  A slice that runs past the end of
\* the buffer is shorter than w and numpy refuses the addition.
Fits(a, w, start) == start + w.len <= a.len
Accumulate(a, w) == [a EXCEPT !.silent = a.silent /\ w.silent]

\* -------------------------------------------------------------------- Init
InitLocals ==
    /\ track = NoTrack
    /\ bar = 0 /\ beat = 0
    /\ velocity = 0
    /\ hit_time = 0
    /\ pos = 0 /\ idx = 0
    /\ note_dur = 0
    /\ freq = FreqZero
    /\ wave = Zeros(0)
    /\ start_sample = 0
    /\ note = EmptyToken

Init ==
    /\ tempo \in Tempos
    /\ bars \in UNION {[1..n -> BarChoices] : n \in 1..MaxSections}
    /\ audio = [len |-> NumSamples(total_duration(bars)), silent |-> TRUE]
    /\ kick_times = <<>>
    /\ kick_runs = <<>>
    /\ current_time = 0
    /\ sec = 1
    /\ ntracks = 0
    /\ pc = "tracks"
    /\ InitLocals
    /\ stages = <<>>
    /\ mix = NoMix /\ sc = NoSc /\ env = NoEnv /\ ord = NoOrd /\ arp = NoArp /\ place = NoPlace


\* ------------------------------------------------------------ drum tracks
PatternIndex(bar_, beat_, pattern_len) == beat_ % pattern_len

Velocity(entry) ==
    IF entry.num THEN entry.v ELSE IF entry.truthy THEN 1 ELSE 0

\* Mutant of HitTime: current_time left out of the sum.
HitTime_FromSectionStart(bar_, beat_) == bar_ * bar_duration + beat_ * beat_duration

HitTime(bar_, beat_) == current_time + bar_ * bar_duration + beat_ * beat_duration

drum_dur == beat_duration \div 2

DrumVoice(type) ==
    CASE type = "kick" -> generate_kick(drum_dur)
      [] type = "snare" -> generate_snare(drum_dur)
      [] type = "clap" -> generate_clap(drum_dur)
      [] type = "percussion" -> generate_percussion(drum_dur)
      [] OTHER -> generate_hihat(drum_dur)

\* Mutant of KickTimesAfter: the append moved out of the kick branch.
KickTimesAfter_AnyDrum(type, kt, ht) == Append(kt, ht)

KickTimesAfter(type, kt, ht) == IF type = "kick" THEN Append(kt, ht) ELSE kt

\* The locals of the previous track are dead when a track starts (each is
\* assigned before it is read), and are cleared.
ClearLocals ==
    /\ velocity' = 0
    /\ hit_time' = 0
    /\ note_dur' = 0
    /\ freq' = FreqZero
    /\ wave' = Zeros(0)
    /\ start_sample' = 0
    /\ note' = EmptyToken

BeginDrumTrack ==
    /\ pc = "tracks"
    /\ ntracks < MaxTracks
    /\ \E tr \in DrumTracks :
          /\ track' = tr
          /\ kick_runs' = IF tr.type = "kick"
                          THEN Append(kick_runs, [sec |-> sec, first |-> Len(kick_times) + 1])
                          ELSE kick_runs
    /\ ntracks' = ntracks + 1
    /\ pc' = "drum"
    /\ bar' = 0
    /\ beat' = -1
    /\ ClearLocals
    /\ UNCHANGED <<tempo, bars, audio, kick_times, current_time, sec, pos, idx>>
    /\ UNCHANGED <<stages, mix, sc, env, ord, arp, place>>

\* One pass through the body of "for beat in range(4)".
DrumBeat ==
    /\ pc = "drum"
    /\ LET nbeat == IF beat = BeatsPerBar - 1 THEN 0 ELSE beat + 1
           nbar == IF beat = BeatsPerBar - 1 THEN bar + 1 ELSE bar
           pattern_len == Len(track.pattern)
           v == Velocity(track.pattern[PatternIndex(nbar, nbeat, pattern_len) + 1])
           ht == HitTime(nbar, nbeat)
           w == DrumVoice(track.type)
           again == IF nbar = num_bars - 1 /\ nbeat = BeatsPerBar - 1
                    THEN "tracks" ELSE "drum"
       IN /\ bar' = nbar
          /\ beat' = nbeat
          /\ velocity' = v
          /\ IF v > 0
             THEN /\ hit_time' = ht
                  /\ wave' = w
                  /\ kick_times' = KickTimesAfter(track.type, kick_times, ht)
                  /\ start_sample' = NumSamples(ht)
                  /\ IF Fits(audio, w, NumSamples(ht))
                     THEN audio' = Accumulate(audio, w) /\ pc' = again
                     ELSE audio' = audio /\ pc' = "error"
             ELSE /\ pc' = again
                  /\ UNCHANGED <<hit_time, wave, kick_times, start_sample, audio>>
    /\ UNCHANGED <<tempo, bars, kick_runs, current_time, sec, ntracks, track, pos,
                   idx, note_dur, freq, note>>
    /\ UNCHANGED <<stages, mix, sc, env, ord, arp, place>>

\* --------------------------------------------------------- melodic tracks
\* Mutant of ClipNote: the clipping "if" left out.
ClipNote_Unclipped(pos_, dur_) == dur_

ClipNote(pos_, dur_) ==
    IF pos_ + dur_ > section_duration THEN section_duration - pos_ ELSE dur_

\* pos += dur_beats * beat_duration, the duration before clipping.
Advance(pos_, dur_) == pos_ + dur_

MelodicVoice(type, f, d) ==
    CASE type = "bass" -> generate_bass(f, d)
      [] type = "sub_bass" -> generate_sub_bass(f, d)
      [] type = "pad" -> generate_pad(f, d)
      [] type = "pluck" -> generate_pluck(f, d)
      [] type = "arp" -> generate_arp(f, d)
      [] type = "supersaw" -> generate_supersaw(f, d)
      [] type = "future_bass" -> generate_future_bass(f, d)
      [] type = "reese_bass" -> generate_reese_bass(f, d)
      [] type = "pluck_bass" -> generate_pluck_bass(f, d)
      [] type = "dubstep_bass" -> generate_dubstep_bass(f, d)
      [] OTHER -> generate_melody(f, d)

BeginMelodicTrack ==
    /\ pc = "tracks"
    /\ ntracks < MaxTracks
    /\ \E tr \in MelodicTracks : track' = tr
    /\ ntracks' = ntracks + 1
    /\ pc' = "note"
    /\ pos' = 0
    /\ idx' = 0
    /\ ClearLocals
    /\ UNCHANGED <<tempo, bars, audio, kick_times, kick_runs, current_time, sec, bar, beat>>
    /\ UNCHANGED <<stages, mix, sc, env, ord, arp, place>>

BeginBendTrack ==
    /\ pc = "tracks"
    /\ ntracks < MaxTracks
    /\ \E tr \in BendTracks : track' = tr
    /\ ntracks' = ntracks + 1
    /\ pc' = "bend"
    /\ pos' = 0
    /\ idx' = 0
    /\ ClearLocals
    /\ UNCHANGED <<tempo, bars, audio, kick_times, kick_runs, current_time, sec, bar, beat>>
    /\ UNCHANGED <<stages, mix, sc, env, ord, arp, place>>

\* One pass through the body of "while pos < section_duration" of a regular
\* melodic track.
NoteStep ==
    /\ pc = "note"
    /\ LET n == track.notes[(idx % Len(track.notes)) + 1]
           dur == track.durations[(idx % Len(track.durations)) + 1]
           nd == ClipNote(pos, dur)
           f == note_to_freq(n)
           v == MelodicVoice(track.type, f, nd)
           automation == Automation(track)
           w == IF v.ok /\ automation # "" THEN apply_automation(v, automation) ELSE v
           start == NumSamples(current_time + pos)
           npos == Advance(pos, dur)
       IN /\ note' = n
          /\ note_dur' = nd
          /\ freq' = IF f.ok THEN f ELSE freq
          /\ IF f.ok /\ w.ok
             THEN /\ wave' = w
                  /\ start_sample' = start
                  /\ IF Fits(audio, w, start)
                     THEN /\ audio' = Accumulate(audio, w)
                          /\ pos' = npos
                          /\ idx' = (idx + 1) % Period(track)
                          /\ pc' = IF npos < section_duration THEN "note" ELSE "tracks"
                     ELSE /\ pc' = "error"
                          /\ UNCHANGED <<audio, pos, idx>>
             ELSE /\ pc' = "error"
                  /\ UNCHANGED <<wave, start_sample, audio, pos, idx>>
    /\ UNCHANGED <<tempo, bars, kick_times, kick_runs, current_time, sec, ntracks,
                   track, bar, beat, velocity, hit_time>>
    /\ UNCHANGED <<stages, mix, sc, env, ord, arp, place>>

\* One pass through the body of the pitch_bend_bass loop.
BendStep ==
    /\ pc = "bend"
    /\ LET start_note == track.notes[(idx % Len(track.notes)) + 1]
           end_note == IF track.bend_notes # <<>>
                       THEN track.bend_notes[(idx % Len(track.bend_notes)) + 1]
                       ELSE start_note
           dur == track.durations[(idx % Len(track.durations)) + 1]
           nd == ClipNote(pos, dur)
           w == generate_pitch_bend_bass(start_note, end_note, nd)
           start == NumSamples(current_time + pos)
           npos == Advance(pos, dur)
       IN /\ note' = start_note
          /\ note_dur' = nd
          /\ IF w.ok
             THEN /\ wave' = w
                  /\ start_sample' = start
                  /\ IF Fits(audio, w, start)
                     THEN /\ audio' = Accumulate(audio, w)
                          /\ pos' = npos
                          /\ idx' = (idx + 1) % Period(track)
                          /\ pc' = IF npos < section_duration THEN "bend" ELSE "tracks"
                     ELSE /\ pc' = "error"
                          /\ UNCHANGED <<audio, pos, idx>>
             ELSE /\ pc' = "error"
                  /\ UNCHANGED <<wave, start_sample, audio, pos, idx>>
    /\ UNCHANGED <<tempo, bars, kick_times, kick_runs, current_time, sec, ntracks,
                   track, bar, beat, velocity, hit_time, freq>>
    /\ UNCHANGED <<stages, mix, sc, env, ord, arp, place>>

\* --------------------------------------------------------------- FX tracks
\* A track rendered in one piece at the start of the section.
RenderOnce(tr, w) ==
    /\ pc = "tracks"
    /\ ntracks < MaxTracks
    /\ track' = tr
    /\ ntracks' = ntracks + 1
    /\ velocity' = 0
    /\ hit_time' = 0
    /\ note_dur' = 0
    /\ freq' = FreqZero
    /\ note' = EmptyToken
    /\ IF w.ok
       THEN /\ wave' = w
            /\ start_sample' = NumSamples(current_time)
            /\ IF Fits(audio, w, NumSamples(current_time))
               THEN audio' = Accumulate(audio, w) /\ pc' = "tracks"
               ELSE audio' = audio /\ pc' = "error"
       ELSE /\ wave' = Zeros(0)
            /\ start_sample' = 0
            /\ audio' = audio
            /\ pc' = "error"
    /\ UNCHANGED <<tempo, bars, kick_times, kick_runs, current_time, sec, bar, beat,
                   pos, idx>>
    /\ UNCHANGED <<stages, mix, sc, env, ord, arp, place>>

\* Mutant of RenderSweep: the sweep lasts one bar whatever the section's bars.
RenderSweep_OneBar == \E tr \in SweepTracks : RenderOnce(tr, generate_sweep(bar_duration))

RenderSweep == \E tr \in SweepTracks : RenderOnce(tr, generate_sweep(section_duration))

RenderRiser ==
    \E tr \in RiserTracks : RenderOnce(tr, generate_white_noise_riser(section_duration))

RenderImpact ==
    \E tr \in ImpactTracks : RenderOnce(tr, generate_impact(beat_duration * ImpactBeats))

\* Mutant of AfterNoBranch: a type that matches no branch is an error.
AfterNoBranch_Raise == "error"

\* The if/elif chain over track_type has no else: with a type that matches
\* no branch the body of the loop does nothing and the loop goes on.
AfterNoBranch == "tracks"

\* A track whose type matches no branch.
SkipTrack ==
    /\ pc = "tracks"
    /\ ntracks < MaxTracks
    /\ \E tr \in OtherTracks : track' = tr
    /\ ntracks' = ntracks + 1
    /\ pc' = AfterNoBranch
    /\ ClearLocals
    /\ UNCHANGED <<tempo, bars, audio, kick_times, kick_runs, current_time, sec,
                   bar, beat, pos, idx>>
    /\ UNCHANGED <<stages, mix, sc, env, ord, arp, place>>

\* ---------------------------------------------------------- end of section
\* Mutant of NextSectionTime: one bar added whatever the section's bars.
NextSectionTime_OneBar(ct) == ct + bar_duration

\* current_time += section_duration
NextSectionTime(ct) == ct + section_duration

EndSection ==
    /\ pc = "tracks"
    /\ current_time' = NextSectionTime(current_time)
    /\ IF sec < Len(bars)
       THEN sec' = sec + 1 /\ pc' = "tracks"
       ELSE sec' = sec /\ pc' = "mixed"
    /\ ntracks' = 0
    /\ UNCHANGED <<tempo, bars, audio, kick_times, kick_runs, track, bar, beat,
                   velocity, hit_time, pos, idx, note_dur, freq, wave, start_sample,
                   note>>
    /\ UNCHANGED <<stages, mix, sc, env, ord, arp, place>>

\* ---------------------------------------------------------- post-processing
\* The statements that follow the section loop, each run once, in the order
\* of the source; pc names the last one completed.
StageAfter_ClipSkipped(p) ==
    CASE p = "mixed" -> "clipped"
      [] p = "sidechained" -> "clipped"
      [] p = "clipped" -> "normalized"
      [] p = "normalized" -> "quantized"
      [] p = "quantized" -> "written"

StageAfter(p) ==
    CASE p = "mixed" -> "sidechained"
      [] p = "sidechained" -> "clipped"
      [] p = "clipped" -> "normalized"
      [] p = "normalized" -> "quantized"
      [] p = "quantized" -> "written"

\* Mutant of SidechainApplies: the toggle is not looked at.
SidechainApplies_ToggleIgnored(sidechain_enabled, kicks) == kicks # <<>>

\* if sidechain_enabled and kick_times:
SidechainApplies(sidechain_enabled, kicks) == sidechain_enabled /\ kicks # <<>>

\* if sidechain_enabled and kick_times: audio = apply_sidechain(...).  The
\* gain leaves the length of the buffer, and its zero samples, as they are.
SidechainStage ==
    /\ pc = "mixed"
    /\ \E sidechain_enabled \in BOOLEAN :
          stages' = IF SidechainApplies(sidechain_enabled, kick_times)
                    THEN Append(stages, "sidechain")
                    ELSE stages
    /\ pc' = StageAfter(pc)
    /\ UNCHANGED <<tempo, bars, audio, kick_times, kick_runs, current_time, sec,
                   ntracks, track, bar, beat, velocity, hit_time, pos, idx, note_dur,
                   freq, wave, start_sample, note, mix, sc, env, ord, arp, place>>

\* audio = np.tanh(audio * 0.7) * 1.2
SoftClipStage ==
    /\ pc = "sidechained"
    /\ stages' = Append(stages, "soft_clip")
    /\ pc' = StageAfter(pc)
    /\ UNCHANGED <<tempo, bars, audio, kick_times, kick_runs, current_time, sec,
                   ntracks, track, bar, beat, velocity, hit_time, pos, idx, note_dur,
                   freq, wave, start_sample, note, mix, sc, env, ord, arp, place>>

\* max_amp = np.max(np.abs(audio)), which numpy refuses for an empty buffer;
\* if max_amp > 0: audio = audio / max_amp * 0.95
NormalizeStage ==
    /\ pc = "clipped"
    /\ IF audio.len > 0
       THEN stages' = Append(stages, "normalize") /\ pc' = StageAfter(pc)
       ELSE stages' = stages /\ pc' = "error"
    /\ UNCHANGED <<tempo, bars, audio, kick_times, kick_runs, current_time, sec,
                   ntracks, track, bar, beat, velocity, hit_time, pos, idx, note_dur,
                   freq, wave, start_sample, note, mix, sc, env, ord, arp, place>>

\* audio_int = (audio * 32767).astype(np.int16)
QuantizeStage ==
    /\ pc = "normalized"
    /\ stages' = Append(stages, "quantize")
    /\ pc' = StageAfter(pc)
    /\ UNCHANGED <<tempo, bars, audio, kick_times, kick_runs, current_time, sec,
                   ntracks, track, bar, beat, velocity, hit_time, pos, idx, note_dur,
                   freq, wave, start_sample, note, mix, sc, env, ord, arp, place>>

\* wavfile.write(output_file, fs, audio_int)
WriteFile ==
    /\ pc = "quantized"
    /\ stages' = Append(stages, "write")
    /\ pc' = StageAfter(pc)
    /\ UNCHANGED <<tempo, bars, audio, kick_times, kick_runs, current_time, sec,
                   ntracks, track, bar, beat, velocity, hit_time, pos, idx, note_dur,
                   freq, wave, start_sample, note, mix, sc, env, ord, arp, place>>

Next ==
    \/ BeginDrumTrack
    \/ DrumBeat
    \/ BeginMelodicTrack
    \/ NoteStep
    \/ BeginBendTrack
    \/ BendStep
    \/ RenderSweep
    \/ RenderRiser
    \/ RenderImpact
    \/ SkipTrack
    \/ EndSection
    \/ SidechainStage
    \/ SoftClipStage
    \/ NormalizeStage
    \/ QuantizeStage
    \/ WriteFile

Spec == Init /\ [][Next]_vars


\* The renderer under the fairness its single thread gives it: it never stops
\* while a step is left to take.
FairSpec == Init /\ [][Next]_vars /\ WF_vars(Next)

\* ---------------------------------------------------------- Pitch Resolver
\* note_to_freq on its own: one token in, one frequency or ValueError out.
Letters == {"A", "B", "C", "D", "E", "F", "G", "a", "b", "c", "d", "e", "f", "g"}
Modifiers == {<<>>, <<"#">>, <<"b">>}
OctaveDigits == {"0", "1", "2", "3", "4", "5", "6", "7", "8"}
Octaves == {<<>>} \cup {<<d>> : d \in OctaveDigits}

ValidTokens == {<<l>> \o m \o o : l \in Letters, m \in Modifiers, o \in Octaves}

ResolverInit ==
    /\ note \in ValidTokens \cup {RestToken, EmptyToken}
    /\ pc = "resolve"
    /\ tempo = CHOOSE t \in Tempos : \A u \in Tempos : t <= u
    /\ bars = <<CHOOSE b \in BarChoices : \A c \in BarChoices : b <= c>>
    /\ audio = [len |-> NumSamples(total_duration(bars)), silent |-> TRUE]
    /\ kick_times = <<>>
    /\ kick_runs = <<>>
    /\ current_time = 0
    /\ sec = 1
    /\ ntracks = 0
    /\ track = NoTrack
    /\ bar = 0 /\ beat = 0
    /\ velocity = 0
    /\ hit_time = 0
    /\ pos = 0 /\ idx = 0
    /\ note_dur = 0
    /\ freq = FreqZero
    /\ wave = Zeros(0)
    /\ start_sample = 0
    /\ stages = <<>>
    /\ mix = NoMix /\ sc = NoSc /\ env = NoEnv /\ ord = NoOrd /\ arp = NoArp /\ place = NoPlace

Resolve ==
    /\ pc = "resolve"
    /\ freq' = note_to_freq(note)
    /\ pc' = IF note_to_freq(note).ok THEN "resolved" ELSE "invalid_note"
    /\ UNCHANGED <<tempo, bars, audio, kick_times, kick_runs, current_time, sec,
                   ntracks, track, bar, beat, velocity, hit_time, pos, idx,
                   note_dur, wave, start_sample, note>>
    /\ UNCHANGED <<stages, mix, sc, env, ord, arp, place>>

ResolverNext == Resolve

ResolverSpec == ResolverInit /\ [][ResolverNext]_vars

\* ------------------------------------------------------ Sidechain Processor
\* apply_sidechain on its own, sample by sample, on buffers of a few
\* samples.  A gain is kept in thousandths (Unity is gain 1.0), a strength in
\* thousandths, a kick time as the sample int(kick_time * fs) it falls on.
\* The sample rates and tempos are chosen so that whole attack and release
\* windows fit in such a buffer.
MaxBuf == 5
MaxKicks == 2
Unity == 1000

SidechainStyles == {"pump", "duck", "subtle", "hard"}
SidechainRates == {200, 400}
SidechainTempos == {1500, 3000}
Strengths == {0, 300, 700, 1000}

Min(a, b) == IF a <= b THEN a ELSE b

\* attack_time in milliseconds, release_time in hundredths of a beat
AttackMillis(style) ==
    CASE style = "pump" -> 5 [] style = "duck" -> 10 [] OTHER -> 20
ReleasePercent(style) ==
    CASE style = "pump" -> 25 [] style = "duck" -> 40 [] OTHER -> 15

\* Mutant of EffectiveStrength: the strength has no effect on the depth.
EffectiveStrength_Fixed(style, strength) == Unity \div 2

\* Mutant of EffectiveStrength: no style discounts the strength.
EffectiveStrength_NeverHalved(style, strength) == strength
EffectiveStrength(style, strength) ==
    IF style \in {"pump", "duck"} THEN strength ELSE strength \div 2

attack_samples(style, fs) == (AttackMillis(style) * fs) \div 1000
release_samples(style, fs, tempo_) ==
    (60 * ReleasePercent(style) * fs) \div (100 * tempo_)

\* Mutant of Linspace: the step is not divided by the number of intervals.
Linspace_Unscaled(a, b, k, j) == a + (b - a) * j
\* np.linspace(a, b, k)[j]; one point is the start value alone.
Linspace(a, b, k, j) == IF k = 1 THEN a ELSE a + ((b - a) * j) \div (k - 1)

\* 1000 * exp(-5 * j / d) to the nearest unit, for the points j / d of
\* np.linspace(0, 1, d + 1) with d <= 5.
ExpMinus5(j, d) ==
    CASE j = 0 -> 1000
      [] j = d -> 7
      [] 2 * j = d -> 82
      [] 3 * j = d -> 189
      [] 3 * j = 2 * d -> 36
      [] 4 * j = d -> 287
      [] 4 * j = 3 * d -> 24
      [] 5 * j = d -> 368
      [] 5 * j = 2 * d -> 135
      [] 5 * j = 3 * d -> 50
      [] 5 * j = 4 * d -> 18

\* The body of "for kick_time in kick_times" for the kick on sample
\* attack_start (0-based), on the envelope e.
KickEnvelope(e, attack_start, att, rel, strength) ==
    LET n == Len(e)
        attack_end == Min(attack_start + att, n)
        start_val == IF attack_start > 0 THEN e[attack_start + 1] ELSE Unity
        e1 == IF attack_end > attack_start
              THEN [i \in 1..n |->
                      IF attack_start < i /\ i <= attack_end
                      THEN Linspace(start_val, Unity - strength,
                                    attack_end - attack_start, i - attack_start - 1)
                      ELSE e[i]]
              ELSE e
        release_start == attack_end
        release_end == Min(release_start + rel, n)
        e2 == IF release_end > release_start
              THEN [i \in 1..n |->
                      IF release_start < i /\ i <= release_end
                      THEN Unity - (strength * ExpMinus5(i - release_start - 1,
                                                         release_end - release_start - 1))
                                     \div 1000
                      ELSE e1[i]]
              ELSE e1
    IN IF attack_start < n THEN e2 ELSE e

\* gaussian_filter1d(envelope, sigma=30): a weighted mean with positive
\* symmetric weights that add up to one, the buffer mirrored at its ends.
\* The weights kept here are 1/4, 1/2, 1/4 over three samples; the result is
\* in units of 1 / (Unity * KernelSum).
KernelSum == 4
Smooth(e) ==
    [i \in 1..Len(e) |->
        e[IF i = 1 THEN 1 ELSE i - 1] + 2 * e[i] + e[IF i = Len(e) THEN i ELSE i + 1]]

RECURSIVE EnvelopeAfter(_, _, _, _, _, _)
EnvelopeAfter(e, kicks, k, att, rel, strength) ==
    IF k = 0 THEN e
    ELSE KickEnvelope(EnvelopeAfter(e, kicks, k - 1, att, rel, strength),
                      kicks[k], att, rel, strength)

Ones(n) == [i \in 1..n |-> Unity]

\* The gain apply_sidechain multiplies the buffer by.
SidechainGain(n, kicks, fs, tempo_, strength, style) ==
    Smooth(EnvelopeAfter(Ones(n), kicks, Len(kicks), attack_samples(style, fs),
                         release_samples(style, fs, tempo_),
                         EffectiveStrength(style, strength)))

\* Integer quotient rounded towards zero.
TruncDiv(a, b) == IF a >= 0 THEN a \div b ELSE -((-a) \div b)

apply_sidechain(samples, kicks, fs, tempo_, strength, style) ==
    LET g == SidechainGain(Len(samples), kicks, fs, tempo_, strength, style)
    IN [i \in 1..Len(samples) |-> TruncDiv(samples[i] * g[i], Unity * KernelSum)]

KickLists(n) == UNION {[1..k -> 0..n] : k \in 0..MaxKicks}

\* The renderer's variables, at rest.
RenderIdle ==
    /\ tempo = CHOOSE t \in Tempos : \A u \in Tempos : t <= u
    /\ bars = <<CHOOSE b \in BarChoices : \A c \in BarChoices : b <= c>>
    /\ audio = [len |-> NumSamples(total_duration(bars)), silent |-> TRUE]
    /\ kick_times = <<>>
    /\ kick_runs = <<>>
    /\ current_time = 0
    /\ sec = 1
    /\ ntracks = 0
    /\ InitLocals
    /\ stages = <<>>

SidechainInit ==
    /\ \E n \in 1..MaxBuf, kicks \in KickLists(MaxBuf), fs \in SidechainRates,
          tp \in SidechainTempos, strength \in Strengths, style \in SidechainStyles :
          /\ \A k \in 1..Len(kicks) : kicks[k] <= n
          /\ sc = [n |-> n, kicks |-> kicks, fs |-> fs, tempo |-> tp,
                   strength |-> strength, style |-> style, done |-> 0,
                   envelope |-> Ones(n), gain |-> <<>>]
    /\ pc = "kicks"
    /\ RenderIdle
    /\ mix = NoMix /\ env = NoEnv /\ ord = NoOrd /\ arp = NoArp /\ place = NoPlace

\* One pass of the loop over kick_times.
KickStep ==
    /\ pc = "kicks"
    /\ sc.done < Len(sc.kicks)
    /\ sc' = [sc EXCEPT
                !.done = @ + 1,
                !.envelope = KickEnvelope(@, sc.kicks[sc.done + 1],
                                          attack_samples(sc.style, sc.fs),
                                          release_samples(sc.style, sc.fs, sc.tempo),
                                          EffectiveStrength(sc.style, sc.strength))]
    /\ UNCHANGED <<pc, render_vars, mix, env, ord, arp, place>>

SmoothStep ==
    /\ pc = "kicks"
    /\ sc.done = Len(sc.kicks)
    /\ sc' = [sc EXCEPT !.gain = Smooth(sc.envelope)]
    /\ pc' = "smoothed"
    /\ UNCHANGED <<render_vars, mix, env, ord, arp, place>>

SidechainNext == KickStep \/ SmoothStep

SidechainSpec == SidechainInit /\ [][SidechainNext]_vars

\* ------------------------------------------------------------------ mastering
\* The statements after the section loop, sample by sample, on a master
\* buffer of a few samples.  An amplitude is kept in thousandths; after the
\* normalization a sample is the quotient mix.samples[i] / mix.den.
MaxMix == 3
Amplitudes == {-3000, -50, 0, 800}
MixStrengths == {700, 1000}
MixStyles == {"pump", "subtle"}
MixTempo == 1500
Int16Max == 32767

Abs(x) == IF x >= 0 THEN x ELSE -x
Sign(x) == IF x >= 0 THEN 1 ELSE -1

\* 1000 * 1.2 * tanh(0.7 * x / 1000) for x >= 0: the values at the knots,
\* a straight line between two knots, rounded up.
TanhKnots == << <<0, 0>>, <<500, 404>>, <<1000, 725>>, <<1500, 938>>,
               <<2000, 1062>>, <<3000, 1165>>, <<4000, 1191>>, <<6000, 1199>> >>
SoftClipMagnitude(x) ==
    IF x >= TanhKnots[Len(TanhKnots)][1]
    THEN TanhKnots[Len(TanhKnots)][2]
    ELSE LET k == CHOOSE j \in 1..(Len(TanhKnots) - 1) :
                      TanhKnots[j][1] <= x /\ x < TanhKnots[j + 1][1]
             x0 == TanhKnots[k][1]
             x1 == TanhKnots[k + 1][1]
             y0 == TanhKnots[k][2]
             y1 == TanhKnots[k + 1][2]
         IN y0 + ((y1 - y0) * (x - x0) + (x1 - x0) - 1) \div (x1 - x0)

\* np.tanh(audio * 0.7) * 1.2
SoftClip(x) == Sign(x) * SoftClipMagnitude(Abs(x))

\* np.max(np.abs(audio))
Peak(samples) ==
    CHOOSE m \in {Abs(samples[i]) : i \in 1..Len(samples)} :
        \A i \in 1..Len(samples) : Abs(samples[i]) <= m

\* Mutant of Headroom: the peak is brought to full scale.
Headroom_None(y) == y * 100

\* audio / max_amp * 0.95: the numerator over the denominator max_amp * 100
Headroom(y) == y * 95

\* floor(a * 32767 / d) for 0 <= a, without a product beyond 32 bits
\* (32767 = 217 * 151).
MulDiv32767(a, d) ==
    LET q1 == a \div d
        r1 == a % d
        q2 == (r1 * 217) \div d
        r2 == (r1 * 217) % d
        q3 == (r2 * 151) \div d
    IN q1 * Int16Max + q2 * 151 + q3

\* astype(np.int16): the fraction is dropped, and a value beyond 16 bits
\* wraps around.
Wrap16(q) == ((q + Int16Max + 1) % (2 * (Int16Max + 1))) - (Int16Max + 1)
Quantize(num, den) == Wrap16(Sign(num) * MulDiv32767(Abs(num), den))

MasterInit ==
    /\ \E n \in 1..MaxMix :
       \E samples \in [1..n -> Amplitudes], kicks \in {<<>>} \cup {<<k>> : k \in 0..(n - 1)},
          enabled \in BOOLEAN, strength \in MixStrengths, style \in MixStyles,
          fs \in SidechainRates :
          mix = [timeline |-> samples, samples |-> samples, den |-> Unity,
                 kicks |-> kicks, sidechain |-> enabled, strength |-> strength,
                 style |-> style, fs |-> fs, max_amp |-> -1, out |-> <<>>]
    /\ pc = "mixed"
    /\ RenderIdle
    /\ sc = NoSc /\ env = NoEnv /\ ord = NoOrd /\ arp = NoArp /\ place = NoPlace

MasterSidechain ==
    /\ pc = "mixed"
    /\ mix' = IF SidechainApplies(mix.sidechain, mix.kicks)
              THEN [mix EXCEPT !.samples = apply_sidechain(@, mix.kicks, mix.fs, MixTempo,
                                                           mix.strength, mix.style)]
              ELSE mix
    /\ pc' = StageAfter(pc)
    /\ UNCHANGED <<render_vars, sc, env, ord, arp, place>>

MasterSoftClip ==
    /\ pc = "sidechained"
    /\ mix' = [mix EXCEPT !.samples = [i \in 1..Len(@) |-> SoftClip(@[i])]]
    /\ pc' = StageAfter(pc)
    /\ UNCHANGED <<render_vars, sc, env, ord, arp, place>>

MasterNormalize ==
    /\ pc = "clipped"
    /\ LET max_amp == Peak(mix.samples)
       IN mix' = IF max_amp > 0
                 THEN [mix EXCEPT !.max_amp = max_amp,
                                  !.samples = [i \in 1..Len(@) |-> Headroom(@[i])],
                                  !.den = max_amp * 100]
                 ELSE [mix EXCEPT !.max_amp = max_amp]
    /\ pc' = StageAfter(pc)
    /\ UNCHANGED <<render_vars, sc, env, ord, arp, place>>

MasterQuantize ==
    /\ pc = "normalized"
    /\ mix' = [mix EXCEPT !.out = [i \in 1..Len(mix.samples) |->
                                      Quantize(mix.samples[i], mix.den)]]
    /\ pc' = StageAfter(pc)
    /\ UNCHANGED <<render_vars, sc, env, ord, arp, place>>

MasterNext ==
    \/ MasterSidechain
    \/ MasterSoftClip
    \/ MasterNormalize
    \/ MasterQuantize

MasterSpec == MasterInit /\ [][MasterNext]_vars

\* ------------------------------------------------------------ Envelope Shaper
\* apply_envelope on its own, sample by sample.  The three times reach the
\* function as int(attack * fs), int(decay * fs) and int(release * fs), kept
\* here as those sample counts; a gain and the sustain level are in
\* thousandths.  Every sample of the envelope remembers the segments
\* written to it.
MaxEnv == 4
SustainLevels == {0, 500, 1000}
Curves == {1, 2}

EnvSample(gain, segs) == [gain |-> gain, segs |-> segs]

\* linspace(0, 1, k)[j] ** curve
Ramp(k, j, curve) ==
    LET x == Linspace(0, Unity, k, j)
    IN IF curve = 1 THEN x ELSE (x * x) \div Unity

\* Mutant of ClampAttack: the attack is not cut to the buffer.
ClampAttack_Unclamped(attack, n) == attack

\* attack_samples = min(int(attack * fs), n_samples)
ClampAttack(attack, n) == Min(attack, n)
\* decay_samples = min(int(decay * fs), n_samples - attack_samples)
ClampDecay(decay, n, att) == Min(decay, n - att)
\* release_samples = min(int(release * fs), n_samples)
ClampRelease(release, n) == Min(release, n)

\* envelope[lo:hi] = a curve of k points: the slice is cut to the buffer,
\* and numpy refuses a curve of another length unless it is a single point.
SliceLen(lo, hi, n) == Max(0, Min(hi, n) - Min(lo, n))
AssignOk(lo, hi, n, k) == k = SliceLen(lo, hi, n) \/ k = 1
Assign(e, lo, hi, seg, points) ==
    [i \in 1..Len(e) |->
        IF lo < i /\ i <= hi
        THEN EnvSample(points[IF Len(points) = 1 THEN 1 ELSE i - lo],
                       e[i].segs \cup {seg})
        ELSE e[i]]

EnvelopeInit ==
    /\ \E n \in 0..MaxEnv, attack \in 0..(MaxEnv + 1), decay \in 0..(MaxEnv + 1),
          release \in 0..(MaxEnv + 1), sustain \in SustainLevels, curve \in Curves :
          env = [n |-> n, attack |-> attack, decay |-> decay, release |-> release,
                 sustain |-> sustain, curve |-> curve,
                 attack_samples |-> 0, decay_samples |-> 0, release_samples |-> 0,
                 envelope |-> <<>>, out_len |-> -1]
    /\ pc = "envelope"
    /\ RenderIdle
    /\ mix = NoMix /\ sc = NoSc /\ ord = NoOrd /\ arp = NoArp /\ place = NoPlace

\* if n_samples == 0: return wave
EnvelopeEmpty ==
    /\ pc = "envelope"
    /\ env.n = 0
    /\ env' = [env EXCEPT !.out_len = 0]
    /\ pc' = "enveloped"
    /\ UNCHANGED <<render_vars, mix, sc, ord, arp, place>>

EnvelopeSetup ==
    /\ pc = "envelope"
    /\ env.n > 0
    /\ LET att == ClampAttack(env.attack, env.n)
       IN env' = [env EXCEPT
                    !.envelope = [i \in 1..env.n |-> EnvSample(Unity, {})],
                    !.attack_samples = att,
                    !.decay_samples = ClampDecay(env.decay, env.n, att),
                    !.release_samples = ClampRelease(env.release, env.n)]
    /\ pc' = "attack"
    /\ UNCHANGED <<render_vars, mix, sc, ord, arp, place>>

EnvelopeAttack ==
    /\ pc = "attack"
    /\ LET k == env.attack_samples
           attack_curve == [j \in 1..k |-> Ramp(k, j - 1, env.curve)]
       IN IF k > 0
          THEN IF AssignOk(0, k, env.n, k)
               THEN /\ env' = [env EXCEPT
                                 !.envelope = Assign(@, 0, k, "attack", attack_curve)]
                    /\ pc' = "decay"
               ELSE env' = env /\ pc' = "error"
          ELSE env' = env /\ pc' = "decay"
    /\ UNCHANGED <<render_vars, mix, sc, ord, arp, place>>

EnvelopeDecay ==
    /\ pc = "decay"
    /\ LET start_decay == env.attack_samples
           end_decay == Min(start_decay + env.decay_samples, env.n - env.release_samples)
           actual_decay_samples == end_decay - start_decay
           decay_curve ==
               [j \in 1..actual_decay_samples |->
                   Unity - (Ramp(actual_decay_samples, j - 1, env.curve)
                               * (Unity - env.sustain)) \div Unity]
       IN IF env.decay_samples > 0 /\ actual_decay_samples > 0
          THEN IF AssignOk(start_decay, end_decay, env.n, actual_decay_samples)
               THEN /\ env' = [env EXCEPT
                                 !.envelope = Assign(@, start_decay, end_decay, "decay",
                                                     decay_curve)]
                    /\ pc' = "release"
               ELSE env' = env /\ pc' = "error"
          ELSE env' = env /\ pc' = "release"
    /\ UNCHANGED <<render_vars, mix, sc, ord, arp, place>>

\* The release slice, and return wave * envelope.
EnvelopeRelease ==
    /\ pc = "release"
    /\ LET start_release == Max(0, env.n - env.release_samples)
           actual_release_samples == env.n - start_release
           release_curve ==
               [j \in 1..actual_release_samples |->
                   (env.sustain * (Unity - Ramp(actual_release_samples, j - 1, env.curve)))
                      \div Unity]
       IN IF env.release_samples > 0 /\ start_release < env.n
          THEN IF AssignOk(start_release, env.n, env.n, actual_release_samples)
               THEN /\ env' = [env EXCEPT
                                 !.envelope = Assign(@, start_release, env.n, "release",
                                                     release_curve),
                                 !.out_len = env.n]
                    /\ pc' = "enveloped"
               ELSE env' = env /\ pc' = "error"
          ELSE env' = [env EXCEPT !.out_len = env.n] /\ pc' = "enveloped"
    /\ UNCHANGED <<render_vars, mix, sc, ord, arp, place>>

EnvelopeNext ==
    \/ EnvelopeEmpty
    \/ EnvelopeSetup
    \/ EnvelopeAttack
    \/ EnvelopeDecay
    \/ EnvelopeRelease

EnvelopeSpec == EnvelopeInit /\ [][EnvelopeNext]_vars

\* ------------------------------------------------- the process-wide generator
\* The noise voices take their samples from numpy's global generator
\* (np.random.uniform), which nothing in main.py seeds or resets.  For a
\* given seed the values it hands out are a fixed stream, and a buffer of
\* noise is known by the position in the stream where its values begin.
\* A rendering is kept as the position reached in the stream, the set of
\* buffers added into the master buffer (voice, velocity or note, offset,
\* length, position of its noise or -1 without noise, and the track of the
\* score it belongs to) and the set of kick times.
\* Three renderings of one section are compared: in score order, in the
\* opposite order from the same seed, and in score order once more in the
\* process that has done the first.
MaxOrd == 2
ClapHits == 4
ClapMillis == 8
TransientMillis == 2
A4Hz == 440

OrdTracks ==
    { Track("kick", <<Num(1), Num(0), Num(1), Num(0)>>, <<>>, <<>>, <<>>),
      Track("hihat", <<Num(1), Num(1)>>, <<>>, <<>>, <<>>),
      Track("snare", <<Num(0), Num(1)>>, <<>>, <<>>, <<>>),
      Track("clap", <<Num(0), Num(0), Num(0), Num(1)>>, <<>>, <<>>, <<>>),
      Track("percussion", <<Num(1)>>, <<>>, <<>>, <<>>),
      Track("pluck", <<>>, << <<"A", "4">>, RestToken >>, <<4>>, <<>>),
      Track("bass", <<>>, << <<"A", "4">> >>, <<8>>, <<>>) }

RECURSIVE ClapDraws(_, _)
ClapDraws(i, n) ==
    IF i = 0 THEN 0
    ELSE LET start == ((i - 1) * ClapMillis * FS) \div 1000
             clap_len == Min((ClapMillis * FS) \div 1000, n - start)
         IN ClapDraws(i - 1, n) + Max(clap_len, 0)

\* The values one drum hit of n samples takes from the stream.
DrumDraws(type, n) ==
    CASE type = "kick" -> 0
      [] type = "snare" -> n
      [] type = "clap" -> ClapDraws(ClapHits, n)
      [] type = "percussion" -> Min((TransientMillis * FS) \div 1000, n)
      [] OTHER -> n

\* The values one note takes: generate_pluck fills a ring buffer of
\* int(fs / freq) values (the notes used here are A4 or a rest).
NoteDraws(type, f) ==
    IF type = "pluck" /\ ~f.zero THEN FS \div A4Hz ELSE 0

NewRender(position) == [rng |-> position, buffer |-> {}, kicks |-> {}, done |-> 0]

Contribution(id, type, arg, start, len, draws, position) ==
    [track |-> id, voice |-> type, arg |-> arg, start |-> start, len |-> len,
     noise |-> IF draws > 0 THEN position ELSE -1]

\* for bar in range(num_bars): for beat in range(4), from pass k on.
RECURSIVE DrumPasses(_, _, _, _)
DrumPasses(r, tr, id, k) ==
    IF k >= num_bars * BeatsPerBar THEN r
    ELSE LET bar_ == k \div BeatsPerBar
             beat_ == k % BeatsPerBar
             v == Velocity(tr.pattern[PatternIndex(bar_, beat_, Len(tr.pattern)) + 1])
             n == NumSamples(drum_dur)
             draws == DrumDraws(tr.type, n)
             hit == [r EXCEPT
                       !.rng = @ + draws,
                       !.buffer = @ \cup {Contribution(id, tr.type, v,
                                                       NumSamples(HitTime(bar_, beat_)),
                                                       n, draws, r.rng)},
                       !.kicks = IF tr.type = "kick"
                                 THEN @ \cup {HitTime(bar_, beat_)} ELSE @]
         IN DrumPasses(IF v > 0 THEN hit ELSE r, tr, id, k + 1)

\* while pos < section_duration, from step i at cursor pos_ on.
RECURSIVE NoteWalk(_, _, _, _, _)
NoteWalk(r, tr, id, i, pos_) ==
    IF pos_ >= section_duration THEN r
    ELSE LET n == tr.notes[(i % Len(tr.notes)) + 1]
             dur == tr.durations[(i % Len(tr.durations)) + 1]
             nd == ClipNote(pos_, dur)
             draws == NoteDraws(tr.type, note_to_freq(n))
             step == [r EXCEPT
                        !.rng = @ + draws,
                        !.buffer = @ \cup {Contribution(id, tr.type, n,
                                                        NumSamples(current_time + pos_),
                                                        NumSamples(nd), draws, r.rng)}]
         IN NoteWalk(step, tr, id, i + 1, Advance(pos_, dur))

\* One track of the section, rendered into r.
RenderTrack(r, tr, id) ==
    LET after == IF tr.type \in DrumTypes
                 THEN DrumPasses(r, tr, id, 0)
                 ELSE NoteWalk(r, tr, id, 0, 0)
    IN [after EXCEPT !.done = @ + 1]

OrderInit ==
    /\ \E k \in 1..MaxOrd :
       \E tracks \in [1..k -> OrdTracks] :
          ord = [tracks |-> tracks, first |-> NewRender(0), swapped |-> NewRender(0),
                 again |-> NewRender(0)]
    /\ pc = "first"
    /\ RenderIdle
    /\ mix = NoMix /\ sc = NoSc /\ env = NoEnv /\ arp = NoArp /\ place = NoPlace

\* The tracks in score order.
RenderInOrder ==
    /\ pc = "first"
    /\ LET id == ord.first.done + 1
           r == RenderTrack(ord.first, ord.tracks[id], id)
       IN /\ ord' = IF id = Len(ord.tracks)
                    THEN [ord EXCEPT !.first = r, !.again = NewRender(r.rng)]
                    ELSE [ord EXCEPT !.first = r]
          /\ pc' = IF id = Len(ord.tracks) THEN "swapped" ELSE "first"
    /\ UNCHANGED <<render_vars, mix, sc, env, arp, place>>

\* The tracks in the opposite order, the stream at the position the first
\* rendering started from.
RenderSwapped ==
    /\ pc = "swapped"
    /\ LET id == Len(ord.tracks) - ord.swapped.done
       IN ord' = [ord EXCEPT !.swapped = RenderTrack(@, ord.tracks[id], id)]
    /\ pc' = IF ord.swapped.done + 1 = Len(ord.tracks) THEN "again" ELSE "swapped"
    /\ UNCHANGED <<render_vars, mix, sc, env, arp, place>>

\* The tracks in score order once more, the stream where the first
\* rendering left it.
RenderAgain ==
    /\ pc = "again"
    /\ LET id == ord.again.done + 1
       IN ord' = [ord EXCEPT !.again = RenderTrack(@, ord.tracks[id], id)]
    /\ pc' = IF ord.again.done + 1 = Len(ord.tracks) THEN "rendered" ELSE "again"
    /\ UNCHANGED <<render_vars, mix, sc, env, arp, place>>

OrderNext == RenderInOrder \/ RenderSwapped \/ RenderAgain

OrderSpec == OrderInit /\ [][OrderNext]_vars


\* ------------------------------------------------------------ arp generator
\* generate_arp sample by sample.  fs * duration is a rational number of
\* samples, x / ArpDen, and every product is exact.  A sample records the
\* multiplier of its frequency, the shares of the saw and of the square wave
\* in it (in thousandths), the pass of the loop that wrote it last and how
\* many passes wrote it.
MaxArp == 5
ArpDen == 3
SawShare == 600
SquareShare == 400

\* The default pattern [1, 1.5, 2, 1.5] and two others, in halves.
DefaultPattern == <<2, 3, 4, 3>>
ArpPatterns == {DefaultPattern, <<2>>, <<2, 4, 6>>}

ArpSample(mult, saw, square, slice, writes) ==
    [mult |-> mult, saw |-> saw, square |-> square, slice |-> slice, writes |-> writes]
ArpZeros(n) == [j \in 1..n |-> ArpSample(0, 0, 0, -1, 0)]

\* start = int(i * arp_duration * fs), with arp_duration = duration / n
SliceStart(i, x, n) == (i * x) \div (ArpDen * n)

\* Mutant of SliceEnd: the length of a slice is truncated before it is
\* multiplied.
SliceEnd_EqualSteps(i, x, n, samples) == Min((i + 1) * (x \div (ArpDen * n)), samples)

\* end = min(int((i + 1) * arp_duration * fs), samples)
SliceEnd(i, x, n, samples) == Min(((i + 1) * x) \div (ArpDen * n), samples)

ArpInit ==
    /\ \E x \in 0..(ArpDen * MaxArp + ArpDen - 1), pattern \in ArpPatterns,
          rest \in BOOLEAN :
          arp = [rest |-> rest, x |-> x, pattern |-> pattern, samples |-> 0,
                 i |-> 0, wave |-> <<>>, out_len |-> -1]
    /\ pc = "arp"
    /\ RenderIdle
    /\ mix = NoMix /\ sc = NoSc /\ env = NoEnv /\ ord = NoOrd /\ place = NoPlace

\* if freq == 0: return np.zeros(int(fs * duration))
ArpRest ==
    /\ pc = "arp"
    /\ arp.rest
    /\ arp' = [arp EXCEPT !.samples = arp.x \div ArpDen,
                          !.wave = ArpZeros(arp.x \div ArpDen),
                          !.out_len = arp.x \div ArpDen]
    /\ pc' = "arped"
    /\ UNCHANGED <<render_vars, mix, sc, env, ord, place>>

\* samples = int(fs * duration); wave = np.zeros(samples)
ArpSetup ==
    /\ pc = "arp"
    /\ ~arp.rest
    /\ arp' = [arp EXCEPT !.samples = arp.x \div ArpDen,
                          !.wave = ArpZeros(arp.x \div ArpDen)]
    /\ pc' = "slices"
    /\ UNCHANGED <<render_vars, mix, sc, env, ord, place>>

\* One pass of "for i, mult in enumerate(pattern)".
ArpSlice ==
    /\ pc = "slices"
    /\ arp.i < Len(arp.pattern)
    /\ LET n == Len(arp.pattern)
           mult == arp.pattern[arp.i + 1]
           start == SliceStart(arp.i, arp.x, n)
           end == SliceEnd(arp.i, arp.x, n, arp.samples)
       IN arp' = [arp EXCEPT
                    !.i = @ + 1,
                    !.wave = IF end > start
                             THEN [j \in 1..arp.samples |->
                                     IF start < j /\ j <= end
                                     THEN ArpSample(mult, SawShare, SquareShare, arp.i,
                                                    arp.wave[j].writes + 1)
                                     ELSE arp.wave[j]]
                             ELSE @]
    /\ UNCHANGED <<pc, render_vars, mix, sc, env, ord, place>>

\* apply_envelope and the scaling by 0.4 keep the length.
ArpReturn ==
    /\ pc = "slices"
    /\ arp.i = Len(arp.pattern)
    /\ arp' = [arp EXCEPT !.out_len = Len(arp.wave)]
    /\ pc' = "arped"
    /\ UNCHANGED <<render_vars, mix, sc, env, ord, place>>

ArpNext == ArpRest \/ ArpSetup \/ ArpSlice \/ ArpReturn

ArpSpec == ArpInit /\ [][ArpNext]_vars


\* ------------------------------------------------- sample ranges, in floats
\* The times of generate_edm_from_yaml are Python floats (IEEE 754 doubles):
\* every division, product and sum is rounded to 53 significant binary
\* digits, to nearest, ties to even, before int() truncates it to a sample
\* number.  A natural number is kept as its digits in base 4096, least
\* significant first, the last digit not 0; <<>> is zero.  A float is
\* m * 2^e for a natural number m of at most 53 binary digits.
MantissaBits == 53
LimbBits == 12
Base == 2^LimbBits
QuotientLimbs == 6

RECURSIVE NatOf(_)
NatOf(k) == IF k = 0 THEN <<>> ELSE <<k % Base>> \o NatOf(k \div Base)

RECURSIVE IntOf(_)
IntOf(a) == IF a = <<>> THEN 0 ELSE Head(a) + Base * IntOf(Tail(a))

RECURSIVE Strip(_)
Strip(a) ==
    IF a = <<>> THEN a
    ELSE IF a[Len(a)] # 0 THEN a
    ELSE Strip(SubSeq(a, 1, Len(a) - 1))

RECURSIVE NatAdd(_, _, _)
NatAdd(a, b, carry) ==
    IF a = <<>> /\ b = <<>> THEN NatOf(carry)
    ELSE LET x == IF a = <<>> THEN 0 ELSE Head(a)
             y == IF b = <<>> THEN 0 ELSE Head(b)
             s == x + y + carry
         IN <<s % Base>> \o NatAdd(IF a = <<>> THEN a ELSE Tail(a),
                                   IF b = <<>> THEN b ELSE Tail(b), s \div Base)

\* The digits of a - b for a >= b.
RECURSIVE SubDigits(_, _, _)
SubDigits(a, b, borrow) ==
    IF a = <<>> THEN <<>>
    ELSE LET y == IF b = <<>> THEN 0 ELSE Head(b)
             d == Head(a) - y - borrow
         IN <<(d + Base) % Base>> \o SubDigits(Tail(a), IF b = <<>> THEN b ELSE Tail(b),
                                               IF d < 0 THEN 1 ELSE 0)
NatSub(a, b) == Strip(SubDigits(a, b, 0))

RECURSIVE LessFrom(_, _, _)
LessFrom(a, b, i) ==
    IF i = 0 THEN FALSE
    ELSE IF a[i] # b[i] THEN a[i] < b[i]
    ELSE LessFrom(a, b, i - 1)
NatLess(a, b) == IF Len(a) # Len(b) THEN Len(a) < Len(b) ELSE LessFrom(a, b, Len(a))

\* a * k for 0 <= k < 2^18
RECURSIVE TimesFrom(_, _, _)
TimesFrom(a, k, carry) ==
    IF a = <<>> THEN NatOf(carry)
    ELSE LET p == Head(a) * k + carry
         IN <<p % Base>> \o TimesFrom(Tail(a), k, p \div Base)
NatTimes(a, k) == Strip(TimesFrom(a, k, 0))

\* a * 2^s and the integer part of a / 2^s
ShiftLeft(a, s) ==
    IF a = <<>> THEN a
    ELSE [i \in 1..(s \div LimbBits) |-> 0] \o NatTimes(a, 2^(s % LimbBits))
ShiftRight(a, s) ==
    IF s \div LimbBits >= Len(a) THEN <<>>
    ELSE LET t == SubSeq(a, (s \div LimbBits) + 1, Len(a))
             r == s % LimbBits
         IN Strip([i \in 1..Len(t) |->
                     (t[i] \div 2^r)
                     + (IF i < Len(t) THEN (t[i + 1] % 2^r) * 2^(LimbBits - r) ELSE 0)])

\* The number of binary digits of a, its digit of weight 2^i, and whether
\* a is a multiple of 2^s.
BitLength(a) ==
    IF a = <<>> THEN 0
    ELSE LimbBits * (Len(a) - 1)
         + (CHOOSE n \in 1..LimbBits : 2^(n - 1) <= a[Len(a)] /\ a[Len(a)] < 2^n)
BitOf(a, i) ==
    IF i \div LimbBits >= Len(a) THEN 0
    ELSE (a[(i \div LimbBits) + 1] \div 2^(i % LimbBits)) % 2
MultipleOfPower(a, s) ==
    \A j \in 1..Len(a) :
        \/ j > (s \div LimbBits) + 1
        \/ j <= s \div LimbBits /\ a[j] = 0
        \/ j = (s \div LimbBits) + 1 /\ a[j] % 2^(s % LimbBits) = 0

FloatZero == [m |-> <<>>, e |-> 0]

\* The double nearest to n * 2^e (plus a positive amount below 2^e when
\* sticky), ties to even.
RoundToDouble(n, e, sticky) ==
    IF BitLength(n) <= MantissaBits THEN [m |-> n, e |-> e]
    ELSE LET s == BitLength(n) - MantissaBits
             kept == ShiftRight(n, s)
             half == BitOf(n, s - 1) = 1
             rest == sticky \/ ~MultipleOfPower(n, s - 1)
             up == half /\ (rest \/ BitOf(kept, 0) = 1)
             m == IF up THEN NatAdd(kept, <<1>>, 0) ELSE kept
         IN IF BitLength(m) > MantissaBits
            THEN [m |-> ShiftRight(m, 1), e |-> e + s + 1]
            ELSE [m |-> m, e |-> e + s]

\* a / b for positive integers a and b: long division to QuotientLimbs
\* digits past the point, then rounded.
RECURSIVE LongDivision(_, _, _, _)
LongDivision(q, r, b, k) ==
    IF k = 0 THEN [q |-> q, r |-> r]
    ELSE LET digit == (r * Base) \div b
         IN LongDivision(IF q = <<>> /\ digit = 0 THEN q ELSE <<digit>> \o q,
                         (r * Base) % b, b, k - 1)
FloatQuotient(a, b) ==
    LET d == LongDivision(NatOf(a \div b), a % b, b, QuotientLimbs)
    IN RoundToDouble(d.q, -(LimbBits * QuotientLimbs), d.r # 0)

FloatAdd(x, y) ==
    IF x.m = <<>> THEN y
    ELSE IF y.m = <<>> THEN x
    ELSE LET e == Min(x.e, y.e)
         IN RoundToDouble(NatAdd(ShiftLeft(x.m, x.e - e), ShiftLeft(y.m, y.e - e), 0),
                          e, FALSE)

\* x - y for x >= y
FloatSub(x, y) ==
    IF y.m = <<>> THEN x
    ELSE LET e == Min(x.e, y.e)
         IN RoundToDouble(NatSub(ShiftLeft(x.m, x.e - e), ShiftLeft(y.m, y.e - e)),
                          e, FALSE)

FloatLess(x, y) ==
    IF y.m = <<>> THEN FALSE
    ELSE IF x.m = <<>> THEN TRUE
    ELSE LET e == Min(x.e, y.e)
         IN NatLess(ShiftLeft(x.m, x.e - e), ShiftLeft(y.m, y.e - e))

\* k * x for an integer 0 <= k < 2^18
FloatTimes(k, x) == RoundToDouble(NatTimes(x.m, k), x.e, FALSE)

\* x * 0.5
FloatHalf(x) == IF x.m = <<>> THEN x ELSE [x EXCEPT !.e = @ - 1]

\* int(x) for x >= 0
FloatToInt(x) ==
    IF x.e >= 0 THEN IntOf(ShiftLeft(x.m, x.e)) ELSE IntOf(ShiftRight(x.m, -x.e))

\* int(t * fs)
SampleAt(t) == FloatToInt(FloatTimes(FS, t))


\* ------------------------------------------------- placing events, in floats
\* generate_edm_from_yaml's arithmetic of times, as the floats compute it:
\* the length of the master buffer, and for every event its first sample
\* and the length of its wave.
MaxPlaceSections == 2
PlaceTempos == {100, 120, 140}
PlaceBars == {1, 2}
PlaceDurations == {<<1>>, <<4>>, <<8>>, <<2, 3>>}
PlaceBarLists == UNION {[1..n -> PlaceBars] : n \in 1..MaxPlaceSections}

\* beat_duration = 60 / tempo, bar_duration = beat_duration * 4
BeatSeconds(bpm) == FloatQuotient(60, bpm)
BarSeconds(bpm) == FloatTimes(BeatsPerBar, BeatSeconds(bpm))
\* section_duration = num_bars * bar_duration
SectionSeconds(bpm, n) == FloatTimes(n, BarSeconds(bpm))

\* sum(section["bars"] * bar_duration for section in data["sections"])
RECURSIVE TotalSeconds(_, _, _)
TotalSeconds(bpm, bs, n) ==
    IF n = 0 THEN FloatZero
    ELSE FloatAdd(TotalSeconds(bpm, bs, n - 1), SectionSeconds(bpm, bs[n]))

\* len(wave) of every generator: int(fs * duration)
WaveLen(duration) == FloatToInt(FloatTimes(FS, duration))

\* audio[start : start + len(wave)] += wave raises a ValueError when the
\* slice and the wave differ in length (a wave of one sample broadcasts).
PlaceFits(audio_len, start, n) == AssignOk(start, start + n, audio_len, n)

\* The state after an event of the given kind is added at time t.
Placed(kind, t, n) ==
    [place EXCEPT !.kind = kind, !.start_sample = SampleAt(t), !.wave_len = n]
PlaceOutcome(t, n, after) ==
    IF PlaceFits(place.audio_len, SampleAt(t), n) THEN after ELSE "error"

PlaceSection == SectionSeconds(place.tempo, place.bars[place.sec])

PlaceInit ==
    /\ pc = "placing"
    /\ \E bpm \in PlaceTempos, bs \in PlaceBarLists :
         place = [tempo |-> bpm, bars |-> bs, sec |-> 1,
                  audio_len |-> SampleAt(TotalSeconds(bpm, bs, Len(bs))),
                  current_time |-> FloatZero, kind |-> "none",
                  start_sample |-> 0, wave_len |-> 0,
                  durations |-> <<>>, pos |-> FloatZero, idx |-> 0]
    /\ RenderIdle
    /\ mix = NoMix /\ sc = NoSc /\ env = NoEnv /\ ord = NoOrd /\ arp = NoArp

\* One hit of a drum track: bar and beat of the two loops.
PlaceDrumHit ==
    /\ pc = "placing"
    /\ \E b \in 0..(place.bars[place.sec] - 1), bt \in 0..(BeatsPerBar - 1) :
         LET t == FloatAdd(FloatAdd(place.current_time,
                                    FloatTimes(b, BarSeconds(place.tempo))),
                           FloatTimes(bt, BeatSeconds(place.tempo)))
             n == WaveLen(FloatHalf(BeatSeconds(place.tempo)))
         IN /\ place' = Placed("drum", t, n)
            /\ pc' = PlaceOutcome(t, n, "placing")
    /\ UNCHANGED <<render_vars, mix, sc, env, ord, arp>>

\* A sweep or a white_noise_riser: section_duration long, at current_time.
PlaceSweep ==
    /\ pc = "placing"
    /\ \E kind \in {"sweep", "white_noise_riser"} :
         /\ place' = Placed(kind, place.current_time, WaveLen(PlaceSection))
         /\ pc' = PlaceOutcome(place.current_time, WaveLen(PlaceSection), "placing")
    /\ UNCHANGED <<render_vars, mix, sc, env, ord, arp>>

\* An impact: beat_duration * 2 long, at current_time.
PlaceImpact ==
    /\ pc = "placing"
    /\ LET n == WaveLen(FloatTimes(2, BeatSeconds(place.tempo)))
       IN /\ place' = Placed("impact", place.current_time, n)
          /\ pc' = PlaceOutcome(place.current_time, n, "placing")
    /\ UNCHANGED <<render_vars, mix, sc, env, ord, arp>>

\* A melodic track begins: pos = 0.0, idx = 0.
PlaceBeginNotes ==
    /\ pc = "placing"
    /\ \E ds \in PlaceDurations :
         place' = [place EXCEPT !.durations = ds, !.pos = FloatZero, !.idx = 0]
    /\ pc' = "walk"
    /\ UNCHANGED <<render_vars, mix, sc, env, ord, arp>>

\* One turn of while pos < section_duration: the note is clipped to the
\* section, added at current_time + pos, and pos moves on by the whole
\* duration.
PlaceNote ==
    /\ pc = "walk"
    /\ FloatLess(place.pos, PlaceSection)
    /\ LET dur_beats == place.durations[(place.idx % Len(place.durations)) + 1]
           whole == FloatTimes(dur_beats, BeatSeconds(place.tempo))
           clipped == IF FloatLess(PlaceSection, FloatAdd(place.pos, whole))
                      THEN FloatSub(PlaceSection, place.pos)
                      ELSE whole
           t == FloatAdd(place.current_time, place.pos)
       IN /\ place' = [Placed("note", t, WaveLen(clipped))
                         EXCEPT !.pos = FloatAdd(place.pos, whole),
                                !.idx = place.idx + 1]
          /\ pc' = PlaceOutcome(t, WaveLen(clipped), "walk")
    /\ UNCHANGED <<render_vars, mix, sc, env, ord, arp>>

\* The while loop ends.
PlaceEndNotes ==
    /\ pc = "walk"
    /\ ~FloatLess(place.pos, PlaceSection)
    /\ pc' = "placing"
    /\ UNCHANGED <<render_vars, mix, sc, env, ord, arp, place>>

\* current_time += section_duration
PlaceNextSection ==
    /\ pc = "placing"
    /\ place' = [place EXCEPT !.current_time = FloatAdd(place.current_time, PlaceSection),
                              !.sec = place.sec + 1]
    /\ pc' = IF place.sec = Len(place.bars) THEN "placed" ELSE "placing"
    /\ UNCHANGED <<render_vars, mix, sc, env, ord, arp>>

PlaceNext ==
    \/ PlaceDrumHit
    \/ PlaceSweep
    \/ PlaceImpact
    \/ PlaceBeginNotes
    \/ PlaceNote
    \/ PlaceEndNotes
    \/ PlaceNextSection

PlacementSpec == PlaceInit /\ [][PlaceNext]_vars


\* ================================================================= claims
IsFloor(n, t) ==
    /\ n * tempo * TicksPerBeat <= t * 60 * FS
    /\ t * 60 * FS < (n + 1) * tempo * TicksPerBeat

\* n is t ticks' worth of samples rounded to the nearest integer (either
\* neighbour on a tie).
IsRound(n, t) ==
    /\ 2 * n * tempo * TicksPerBeat - tempo * TicksPerBeat <= 2 * t * 60 * FS
    /\ 2 * t * 60 * FS <= 2 * n * tempo * TicksPerBeat + tempo * TicksPerBeat

InDrumTrack == track.type \in DrumTypes /\ beat >= 0

\* C1: on a drum track the velocity used at beat n = bar * 4 + beat of the
\* section is pattern[n mod patternLength], for every pattern length >= 1.
C1_PatternCyclesOverSection ==
    InDrumTrack =>
        velocity = Velocity(track.pattern[((bar * BeatsPerBar + beat)
                                              % Len(track.pattern)) + 1])

\* C2: a drum beat with velocity > 0 accumulates exactly one half-beat hit
\* at sample int((current_time + bar * bar_duration + beat * beat_duration)
\* * fs); a kick hit, and no other, appends that hit time to kick_times; a
\* beat with velocity <= 0 changes neither the buffer nor the list.
C2_DrumHit ==
    [][pc = "drum" =>
          IF velocity' > 0
          THEN /\ hit_time' = current_time + bar' * BeatsPerBar * TicksPerBeat
                                + beat' * TicksPerBeat
               /\ start_sample' = NumSamples(hit_time')
               /\ IsFloor(wave'.len, TicksPerBeat \div 2)
               /\ audio' = [audio EXCEPT !.silent = FALSE]
               /\ kick_times' = IF track.type = "kick"
                                THEN kick_times \o <<hit_time'>>
                                ELSE kick_times
          ELSE /\ audio' = audio
               /\ kick_times' = kick_times
               /\ wave' = wave]_vars

C2_Witness ==
    /\ pc = "drum"
    /\ track.type = "kick"
    /\ velocity > 0
    /\ bar = 1
    /\ Len(kick_times) >= 3
    /\ kick_times[Len(kick_times)] = hit_time
    /\ start_sample = NumSamples(hit_time)
    /\ ~audio.silent

Sorted(s) == \A i \in 1..(Len(s) - 1) : s[i] <= s[i + 1]

\* C3 as stated: the Kick Trigger List is in non-decreasing time order at
\* every point of the rendering, for every score.
C3_KickTimesSorted == Sorted(kick_times)

RunEnd(r) ==
    IF r < Len(kick_runs) THEN kick_runs[r + 1].first - 1 ELSE Len(kick_times)
RunOf(r) == kick_runs[r].first .. RunEnd(r)

\* C3 as amended: the list is the concatenation, in score order, of one run
\* per kick track; each run is strictly increasing, every trigger of an
\* earlier section is earlier than every trigger of a later section, and so
\* the list is in non-decreasing order whenever no section has two kick
\* tracks.
C3_KickTimesOrderedByRun ==
    /\ \A r \in 1..Len(kick_runs) :
          \A i \in RunOf(r) : i + 1 \in RunOf(r) => kick_times[i] < kick_times[i + 1]
    /\ \A r, q \in 1..Len(kick_runs) :
          kick_runs[r].sec < kick_runs[q].sec =>
              \A i \in RunOf(r), j \in RunOf(q) : kick_times[i] < kick_times[j]
    /\ (\A r, q \in 1..Len(kick_runs) : r # q => kick_runs[r].sec # kick_runs[q].sec)
          => Sorted(kick_times)

C3_Witness ==
    /\ pc = "mixed"
    /\ Len(kick_runs) = 2
    /\ kick_runs[1].sec = 1
    /\ kick_runs[2].sec = 2
    /\ Len(kick_times) >= 4
    /\ Sorted(kick_times)

PrevDur ==
    track.durations[(((idx + Period(track) - 1) % Period(track))
                        % Len(track.durations)) + 1]
PrevPos == pos - PrevDur

InMelodicTrack ==
    /\ pc \in {"note", "bend", "tracks"}
    /\ ntracks > 0
    /\ track.type \in MelodicTypes

NonNegative(ds) == \A i \in 1..Len(ds) : ds[i] >= 0
InNoteWalk == pc \in {"note", "bend"}

\* C5: on a melodic or pitch_bend_bass track with non-empty notes and
\* durations and non-negative durations, the note walk ends after finitely
\* many steps.
C5_NoteWalkTerminates ==
    (InNoteWalk /\ track.notes # <<>> /\ track.durations # <<>>
        /\ NonNegative(track.durations))
      ~> ~InNoteWalk

\* C6: a request for zero samples never fails, so a melodic track with a
\* 0-beat entry in durations is rendered to completion: the render never
\* aborts in a step whose note resolved and whose duration gives 0 samples.
C6_ZeroDurationNeverFails ==
    ~(/\ pc = "error"
      /\ track.type \in MelodicTypes
      /\ note_to_freq(note).ok
      /\ NumSamples(note_dur) = 0)

\* The duration the current track last asked its voice generator for.
RequestedDuration ==
    CASE track.type \in DrumTypes -> TicksPerBeat \div 2
      [] track.type \in MelodicTypes -> note_dur
      [] track.type = "impact" -> ImpactBeats * TicksPerBeat
      [] OTHER -> section_duration

Produced ==
    /\ ntracks > 0
    /\ pc # "error"
    /\ \/ track.type \in DrumTypes /\ beat >= 0 /\ velocity > 0
       \/ track.type \in MelodicTypes
       \/ track.type \in {"sweep", "white_noise_riser", "impact"}

BendTarget ==
    IF track.bend_notes # <<>>
    THEN track.bend_notes[(idx % Len(track.bend_notes)) + 1]
    ELSE track.notes[(idx % Len(track.notes)) + 1]

IsRest(n) == n = RestToken \/ n = EmptyToken

\* C9: "rest" and "" resolve to 0 Hz; every pitched voice generator given
\* 0 Hz, and pitch_bend_bass given two rests, returns an all-zero buffer of
\* the requested length; rendering a rest leaves the master buffer as it was.
C9_RestIsSilent ==
    [][/\ (pc = "note" /\ IsRest(note'))
            => /\ pc' # "error"
               /\ freq'.zero
               /\ wave' = Zeros(NumSamples(note_dur'))
               /\ audio' = audio
       /\ (pc = "bend" /\ IsRest(note') /\ IsRest(BendTarget))
            => /\ pc' # "error"
               /\ wave' = Zeros(NumSamples(note_dur'))
               /\ audio' = audio
       /\ \A type \in MelodicTypes \ {"pitch_bend_bass"} :
             MelodicVoice(type, note_to_freq(RestToken), note_dur')
                = Zeros(NumSamples(note_dur'))]_vars

C9_Witness ==
    /\ pc = "tracks"
    /\ track.type = "pad"
    /\ note = EmptyToken
    /\ freq.zero
    /\ wave.len > 0
    /\ wave.silent
    /\ audio.silent
    /\ pos > 0

\* C10: every valid note token (letter A-G in either case, optional # or b,
\* optional octave digit 0..8) resolves; "A4" and "A" resolve to 440 Hz; the
\* same name one octave up resolves 12 semitones higher.
C10_ValidTokensResolve ==
    (pc # "resolve" /\ note \in ValidTokens) =>
        /\ pc = "resolved"
        /\ freq.ok
        /\ ~freq.zero
        /\ note \in {<<"A", "4">>, <<"A">>} => freq.semis = 0
        /\ \A e \in OctaveDigits :
              (/\ note[Len(note)] \in OctaveDigits
               /\ DigitVal(e) = DigitVal(note[Len(note)]) + 1)
                 => note_to_freq(SubSeq(note, 1, Len(note) - 1) \o <<e>>)
                       = [freq EXCEPT !.semis = @ + 12]

\* C11: a flat token (letter, "b", optional octave digit) resolves to the
\* semitone one below its letter, wrapping modulo 12, in the octave of its
\* own digit (octave 4 without one): Bb = A#, Db = C#, Eb = D#, Gb = F# and
\* Ab = G# in every octave, and Cb n is B n, eleven semitones above C n.
NaturalSemitone(l) ==
    CASE Upper(l) = "C" -> 0 [] Upper(l) = "D" -> 2 [] Upper(l) = "E" -> 4
      [] Upper(l) = "F" -> 5 [] Upper(l) = "G" -> 7 [] Upper(l) = "A" -> 9
      [] Upper(l) = "B" -> 11

IsFlatToken(n) == n \in ValidTokens /\ Len(n) >= 2 /\ n[2] = "b"
OctaveOf(n) ==
    IF n[Len(n)] \in Digits THEN DigitVal(n[Len(n)]) ELSE DefaultOctave
WithName(n, name) == name \o SubSeq(n, 3, Len(n))
SharpOfFlat(l) ==
    CASE Upper(l) = "B" -> <<"A", "#">> [] Upper(l) = "D" -> <<"C", "#">>
      [] Upper(l) = "E" -> <<"D", "#">> [] Upper(l) = "G" -> <<"F", "#">>
      [] Upper(l) = "A" -> <<"G", "#">>

C11_FlatsResolveOneSemitoneDown ==
    (pc # "resolve" /\ IsFlatToken(note)) =>
        /\ pc = "resolved"
        /\ freq.ok /\ ~freq.zero
        /\ freq.semis = 12 * (OctaveOf(note) - 4)
                           + ((NaturalSemitone(note[1]) - 1) % 12) - 9
        /\ Upper(note[1]) \in {"B", "D", "E", "G", "A"} =>
              freq = note_to_freq(WithName(note, SharpOfFlat(note[1])))
        /\ Upper(note[1]) = "C" =>
              /\ freq = note_to_freq(WithName(note, <<"B">>))
              /\ freq.semis = note_to_freq(WithName(note, <<"C">>)).semis + 11

C11_Witness ==
    /\ pc = "resolved"
    /\ note = <<"C", "b", "3">>
    /\ freq.semis = -10

\* C12: a note token the Pitch Resolver does not recognize ends the render
\* with an error: nothing runs after it, so the output file is never
\* written; the one write of the file comes after every section has been
\* rendered and the sidechain stage and the mastering stages have completed.
NameOf(n) == IF n[Len(n)] \in Digits THEN SubSeq(n, 1, Len(n) - 1) ELSE n
Recognized(n) ==
    \/ IsRest(n)
    \/ /\ Len(NameOf(n)) > 1
       /\ NameOf(n)[2] \in {"b", "B"}
       /\ Upper(NameOf(n)[1]) \in {"A", "B", "C", "D", "E", "F", "G"}
    \/ \E i \in 1..Len(NOTES) : NOTES[i] = UpperStr(NameOf(n))

HasStage(log, name) == \E i \in 1..Len(log) : log[i] = name
Mastering == <<"soft_clip", "normalize", "quantize">>

C12_InvalidNoteAbortsRender ==
    [][/\ pc # "error"
       /\ (pc \in {"note", "bend"} /\ ~Recognized(note')) =>
             /\ pc' = "error"
             /\ audio' = audio
             /\ stages' = stages
       /\ pc' = "error" => ~HasStage(stages', "write")
       /\ (HasStage(stages', "write") /\ ~HasStage(stages, "write")) =>
             /\ sec = Len(bars)
             /\ current_time = total_duration(bars)
             /\ stages \in {Mastering, <<"sidechain">> \o Mastering}
             /\ stages' = Append(stages, "write")]_vars

C12_Witness ==
    /\ pc = "error"
    /\ sec = 2
    /\ ~Recognized(note)
    /\ ~audio.silent
    /\ stages = <<>>

\* C13: the stages run in one fixed order on the master buffer: the
\* timeline accumulation, the sidechain (when it applies), the soft clip,
\* the peak normalization, the quantization, the file write; none runs
\* twice, and the renderer adds nothing to the buffer once a stage has run.
Pipeline == <<"sidechain">> \o Mastering \o <<"write">>
IsPrefix(s, t) == Len(s) <= Len(t) /\ s = SubSeq(t, 1, Len(s))

C13_StagesInFixedOrder ==
    [][/\ \/ IsPrefix(stages', Pipeline)
          \/ IsPrefix(stages', Tail(Pipeline))
       /\ stages' # stages => Len(stages') = Len(stages) + 1
       /\ (pc \notin {"tracks", "drum", "note", "bend"}) => audio' = audio
       /\ (pc \in {"tracks", "drum", "note", "bend"}) => stages' = <<>>
       /\ HasStage(stages', "sidechain") => kick_times # <<>>]_vars

C13_Witness ==
    /\ pc = "written"
    /\ stages = Pipeline
    /\ ~audio.silent
    /\ Len(bars) = 2

\* C20: a kick trigger inside the buffer, at effective strength 0 < s <= 1,
\* lowers the sidechain gain to 1 - s and the gain rises again over the
\* release window, so that the least gain over the buffer is strictly lower
\* at a higher strength.  As stated, for every trigger inside the buffer,
\* with the gain at 1 - s on the last sample of its attack window:
ScAttack == attack_samples(sc.style, sc.fs)
ScRelease == release_samples(sc.style, sc.fs, sc.tempo)
ScStrength == IF sc.style \in {"pump", "duck"} THEN sc.strength ELSE sc.strength \div 2
AttackEnd(k) == Min(k + ScAttack, sc.n)
AttackPoints(k) == AttackEnd(k) - k
ReleasePoints(k) == Min(AttackEnd(k) + ScRelease, sc.n) - AttackEnd(k)
MinOf(g) == CHOOSE m \in {g[i] : i \in 1..Len(g)} : \A i \in 1..Len(g) : m <= g[i]
GainAt(strength) ==
    SidechainGain(sc.n, sc.kicks, sc.fs, sc.tempo, strength, sc.style)
KickPass == pc = "kicks" /\ sc'.done = sc.done + 1
ThisKick == sc.kicks[sc.done + 1]
Rises(e, first, points) ==
    \A i \in first..(first + points - 2) : e[i] <= e[i + 1]

C20_EveryTriggerDucks ==
    [][/\ (KickPass /\ ThisKick < sc.n /\ ScStrength > 0) =>
             /\ sc'.envelope[AttackEnd(ThisKick)] = Unity - ScStrength
             /\ sc'.envelope[AttackEnd(ThisKick)] < Unity
             /\ Rises(sc'.envelope, AttackEnd(ThisKick) + 1, ReleasePoints(ThisKick))
       /\ (pc' = "smoothed" /\ \E k \in 1..Len(sc.kicks) : sc.kicks[k] < sc.n) =>
             \A s2 \in Strengths :
                 (0 < sc.strength /\ sc.strength < s2) =>
                     MinOf(GainAt(s2)) < MinOf(sc'.gain)]_vars

\* C20, amended: the same for a trigger whose attack window, cut at the end
\* of the buffer, holds at least two samples (the gain is 1 - s on its last
\* sample) or whose release window holds at least one (the gain is 1 - s
\* on its first sample when the attack window holds fewer than two).
Ducks(k) == k < sc.n /\ (AttackPoints(k) >= 2 \/ ReleasePoints(k) >= 1)

C20_TriggerWithWindowDucks ==
    [][/\ (KickPass /\ Ducks(ThisKick) /\ ScStrength > 0) =>
             /\ LET low == IF AttackPoints(ThisKick) >= 2
                           THEN AttackEnd(ThisKick)
                           ELSE AttackEnd(ThisKick) + 1
                IN /\ sc'.envelope[low] = Unity - ScStrength
                   /\ sc'.envelope[low] < Unity
             /\ Rises(sc'.envelope, AttackEnd(ThisKick) + 1, ReleasePoints(ThisKick))
       /\ (KickPass /\ ~Ducks(ThisKick)) => sc'.envelope = sc.envelope
       /\ (pc' = "smoothed" /\ \E k \in 1..Len(sc.kicks) : Ducks(sc.kicks[k])) =>
             \A s2 \in Strengths :
                 (0 < sc.strength /\ sc.strength < s2) =>
                     /\ MinOf(GainAt(s2)) < MinOf(sc'.gain)
                     /\ MinOf(sc'.gain) < Unity * KernelSum]_vars

C20_Witness ==
    /\ pc = "smoothed"
    /\ sc.strength = 300
    /\ sc.style = "pump"
    /\ sc.kicks = <<1>>
    /\ sc.n = 5
    /\ AttackPoints(1) = 2
    /\ ReleasePoints(1) = 2
    /\ sc.envelope[3] = 700
    /\ MinOf(sc.gain) < MinOf(GainAt(0))

\* C14: every sample of the quantized output is at most
\* round(0.95 * 32767) = 31129 in absolute value, so the 16-bit range is
\* never exceeded; when the peak of the buffer is 0 the normalization is
\* skipped and the output is all zeros.
C14_OutputWithinHeadroom ==
    pc = "quantized" =>
        /\ Len(mix.out) = Len(mix.timeline)
        /\ \A i \in 1..Len(mix.out) : Abs(mix.out[i]) <= 31129
        /\ mix.max_amp = 0 =>
              /\ mix.den = Unity
              /\ \A i \in 1..Len(mix.out) : mix.out[i] = 0
        /\ mix.max_amp > 0 => \E i \in 1..Len(mix.out) : Abs(mix.out[i]) = 31128

C14_Witness ==
    /\ pc = "quantized"
    /\ mix.timeline = <<-3000, 800, -50>>
    /\ mix.max_amp > 1000
    /\ mix.out[1] = -31128
    /\ mix.out[2] > 0

\* C19: with an empty Kick Trigger List, or with the sidechain toggle off,
\* the buffer that reaches the mastering is the timeline buffer sample for
\* sample; apply_sidechain with an empty trigger list returns a buffer of
\* the same length with every sample unchanged.
C19_NoSidechainNoChange ==
    [][pc = "mixed" =>
         /\ (mix.kicks = <<>> \/ ~mix.sidechain) =>
               /\ mix'.samples = mix.timeline
               /\ pc' = "sidechained"
         /\ \A strength \in Strengths, style \in SidechainStyles, tp \in SidechainTempos :
               apply_sidechain(mix.samples, <<>>, mix.fs, tp, strength, style)
                  = mix.timeline]_vars

C19_Witness ==
    /\ pc = "sidechained"
    /\ ~mix.sidechain
    /\ mix.kicks = <<0>>
    /\ mix.samples = mix.timeline
    /\ mix.samples = <<800, -50>>

\* C17: the attack, decay and release lengths are clamped so that their sum
\* is at most the buffer length, whatever the three times and the duration,
\* so that no sample is written by two segments: the release never
\* overwrites an attack or a decay sample.
C17_SegmentsDisjoint ==
    pc = "enveloped" /\ env.n > 0 =>
        /\ env.attack_samples + env.decay_samples + env.release_samples <= env.n
        /\ \A i \in 1..env.n : Cardinality(env.envelope[i].segs) <= 1

\* C18: the Envelope Shaper returns, without raising, a buffer of the
\* length of its input for all attack, decay and release times >= 0 and
\* every length, all three times zero and windows longer than the buffer
\* included; an input of length zero is returned as it is.
C18_EnvelopeKeepsLength ==
    /\ pc # "error"
    /\ pc = "enveloped" =>
          /\ env.out_len = env.n
          /\ env.n > 0 => Len(env.envelope) = env.n
          /\ env.n = 0 => env.envelope = <<>>

C18_Witness ==
    /\ pc = "enveloped"
    /\ env.n = 3
    /\ env.attack = 5 /\ env.decay = 5 /\ env.release = 5
    /\ env.out_len = 3

\* C15: the tracks of a section are rendered independently of each other:
\* rendered in another order they leave the same contents in the master
\* buffer and the same set of kick trigger times as in score order.
C15_TrackOrderIrrelevant ==
    pc \in {"again", "rendered"} =>
        /\ ord.swapped.buffer = ord.first.buffer
        /\ ord.swapped.kicks = ord.first.kicks

\* C16: nothing is carried from one render to the next: the samples of a
\* render are the same whether or not the process has rendered before.
C16_EarlierRendersIrrelevant ==
    pc = "rendered" => ord.again.buffer = ord.first.buffer

\* C29: for every trigger list (overlapping triggers and triggers on the
\* end of the buffer included) and every effective strength s in [0, 1],
\* the sidechain gain lies in [1 - s, 1] at every sample, after each pass
\* of the loop over the triggers and after the smoothing, so that the stage
\* never raises the magnitude of a sample and never flips its sign.
ProbeAmplitudes == {-3000, -1, 800}
Ducked(a) ==
    apply_sidechain([i \in 1..sc.n |-> a], sc.kicks, sc.fs, sc.tempo,
                    sc.strength, sc.style)

C29_GainBetweenFloorAndOne ==
    /\ pc \in {"kicks", "smoothed"} =>
          \A i \in 1..Len(sc.envelope) :
              /\ Unity - ScStrength <= sc.envelope[i]
              /\ sc.envelope[i] <= Unity
    /\ pc = "smoothed" =>
          /\ \A i \in 1..Len(sc.gain) :
                /\ KernelSum * (Unity - ScStrength) <= sc.gain[i]
                /\ sc.gain[i] <= KernelSum * Unity
          /\ \A a \in ProbeAmplitudes : \A i \in 1..sc.n :
                /\ (IF Ducked(a)[i] < 0 THEN -Ducked(a)[i] ELSE Ducked(a)[i])
                      <= (IF a < 0 THEN -a ELSE a)
                /\ a < 0 => Ducked(a)[i] <= 0
                /\ a > 0 => Ducked(a)[i] >= 0

\* Two overlapping triggers and one on the end of the buffer, at full
\* strength: the gain reaches the floor 0 and stays below one somewhere.
C29_Witness ==
    /\ pc = "smoothed"
    /\ sc.n = 5
    /\ sc.kicks = <<1, 2>>
    /\ sc.strength = Unity
    /\ sc.style = "duck"
    /\ sc.fs = 400
    /\ \E i \in 1..sc.n : sc.envelope[i] = 0
    /\ \E i \in 1..sc.n : sc.gain[i] < KernelSum * Unity

\* C25: the style selects the window lengths and the strength discount:
\* "pump" (5 ms attack, a quarter beat of release) and "duck" (10 ms, 0.4
\* beat) use the configured strength unchanged, "subtle" (20 ms, 0.15 beat)
\* halves it, and any other style name is treated exactly as "subtle" and
\* raises no error.
StyleTable(style) ==
    CASE style = "pump" -> [attack_ms |-> 5, release_pct |-> 25, discount |-> 1]
      [] style = "duck" -> [attack_ms |-> 10, release_pct |-> 40, discount |-> 1]
      [] style = "subtle" -> [attack_ms |-> 20, release_pct |-> 15, discount |-> 2]
GainOfStyle(style) ==
    LET row == StyleTable(style)
    IN Smooth(EnvelopeAfter(Ones(sc.n), sc.kicks, Len(sc.kicks),
                            (row.attack_ms * sc.fs) \div 1000,
                            (60 * row.release_pct * sc.fs) \div (100 * sc.tempo),
                            sc.strength \div row.discount))

C25_StyleSelectsWindowsAndDiscount ==
    /\ pc \in {"kicks", "smoothed"}
    /\ pc = "smoothed" =>
          sc.gain = GainOfStyle(IF sc.style \in {"pump", "duck"}
                                THEN sc.style ELSE "subtle")

\* An unrecognized style with a trigger inside the buffer: the gain is the
\* one of "subtle" and differs from the one of "pump".
C25_Witness ==
    /\ pc = "smoothed"
    /\ sc.style = "hard"
    /\ sc.strength = 700
    /\ sc.kicks = <<1>>
    /\ sc.n = 5
    /\ sc.gain = GainOfStyle("subtle")
    /\ sc.gain # GainOfStyle("pump")
    /\ \E i \in 1..sc.n : sc.gain[i] < KernelSum * Unity

\* C23: in the Envelope Shaper every sample between the end of the decay
\* segment and the start of the release segment (the sustain region, the
\* samples that no segment writes) has gain equal to the sustain level, so
\* the gain curve has no jump at either boundary of the sustain region.
SustainRegion == {i \in 1..Len(env.envelope) : env.envelope[i].segs = {}}

C23_SustainRegionAtSustainLevel ==
    (pc = "enveloped" /\ env.n > 0) =>
        \A i \in SustainRegion :
            /\ i > env.attack_samples
            /\ i <= env.n - env.release_samples
            /\ env.envelope[i].gain = env.sustain

\* C30: a pitch_bend_bass step (of at least one sample) is silent if and
\* only if both its start note and its bend note resolve to 0 Hz; when
\* exactly one of them is a rest the step sounds, for its whole duration, at
\* the constant frequency of the other; and with no bend_notes on the track
\* the bend target is the start note itself.
StartNote == track.notes[(idx % Len(track.notes)) + 1]
BendNote ==
    IF Len(track.bend_notes) = 0 THEN StartNote
    ELSE track.bend_notes[(idx % Len(track.bend_notes)) + 1]
ResolvesToZero(n) == note_to_freq(n).zero
BendPass ==
    /\ pc = "bend"
    /\ note_to_freq(StartNote).ok
    /\ note_to_freq(BendNote).ok
    /\ note_dur' > 0

C30_BendStepSilentIffBothRest ==
    [][BendPass =>
         LET curve == freq_curve(note_to_freq(StartNote), note_to_freq(BendNote))
         IN /\ wave'.len = NumSamples(note_dur')
            /\ wave'.silent <=> (ResolvesToZero(StartNote) /\ ResolvesToZero(BendNote))
            /\ (ResolvesToZero(StartNote) /\ ~ResolvesToZero(BendNote)) =>
                  /\ ~wave'.silent
                  /\ curve.first = note_to_freq(BendNote)
                  /\ curve.last = note_to_freq(BendNote)
            /\ (~ResolvesToZero(StartNote) /\ ResolvesToZero(BendNote)) =>
                  /\ ~wave'.silent
                  /\ curve.first = note_to_freq(StartNote)
                  /\ curve.last = note_to_freq(StartNote)
            /\ track.bend_notes = <<>> =>
                  /\ wave'.silent <=> ResolvesToZero(StartNote)
                  /\ curve.first = note_to_freq(StartNote)
                  /\ curve.last = note_to_freq(StartNote)]_vars

\* A step from C2 to a rest has sounded.
C30_Witness ==
    /\ pc \in {"bend", "tracks"}
    /\ track.type = "pitch_bend_bass"
    /\ note = <<"C", "2">>
    /\ track.bend_notes # <<>>
    /\ track.bend_notes[1] = RestToken
    /\ idx = 1
    /\ wave.len > 0
    /\ ~wave.silent

\* C22: a track whose type is not in the renderer's role set (such as
\* "crash", "riser" or "downlifter") is skipped: it leaves the master
\* buffer and the Kick Trigger List unchanged, the loop goes on to the
\* remaining tracks of the section, and no error of the render is ever on
\* such a track, so the render completes and writes its output.
RoleSet ==
    {"kick", "hihat", "snare", "clap", "percussion",
     "bass", "sub_bass", "melody", "pad", "pluck", "arp", "supersaw",
     "future_bass", "reese_bass", "pluck_bass", "dubstep_bass", "pitch_bend_bass",
     "sweep", "white_noise_riser", "impact"}
StartsUnknownTrack ==
    /\ pc = "tracks"
    /\ ntracks' = ntracks + 1
    /\ track'.type \notin RoleSet

C22_UnknownTypeIsSkipped ==
    [][/\ StartsUnknownTrack =>
             /\ audio' = audio
             /\ kick_times' = kick_times
             /\ kick_runs' = kick_runs
             /\ current_time' = current_time
             /\ sec' = sec
             /\ pc' = "tracks"
       /\ (pc' = "error" /\ pc \in {"tracks", "drum", "note", "bend"}) =>
             track'.type \in RoleSet]_vars

\* A render whose last track was a "crash", after a track that sounded,
\* has written its file.
C22_Witness ==
    /\ pc = "written"
    /\ track.type = "crash"
    /\ ~audio.silent
    /\ kick_times # <<>>

\* C26: each sweep, white_noise_riser and impact track is rendered exactly
\* once per section and placed at the section's start sample
\* int(current_time * fs): sweep and white_noise_riser with the section's
\* full duration, impact with exactly 2 beat durations, whatever the number
\* of bars and whatever pattern field the track carries.
FxTypes == {"sweep", "white_noise_riser", "impact"}
StartsFxTrack ==
    /\ pc = "tracks"
    /\ ntracks' = ntracks + 1
    /\ track'.type \in FxTypes
FxSamples(type) ==
    IF type = "impact"
    THEN (2 * 60 * FS) \div tempo
    ELSE (bars[sec] * BeatsPerBar * 60 * FS) \div tempo

MelodicRoles ==
    {"bass", "sub_bass", "melody", "pad", "pluck", "arp", "supersaw",
     "future_bass", "reese_bass", "pluck_bass", "dubstep_bass", "pitch_bend_bass"}
RECURSIVE SumOf(_)
SumOf(s) == IF s = <<>> THEN 0 ELSE Head(s) + SumOf(Tail(s))
DurationsExceedSection(tr) ==
    /\ tr.type \in MelodicRoles
    /\ \A s \in 1..Len(bars) :
          SumOf(tr.durations) > bars[s] * BeatsPerBar * TicksPerBeat

C21_InvalidScoreNeverWritten ==
    pc = "written" => ~DurationsExceedSection(track)

\* C24: a named automation curve on a track is applied to every rendered
\* note, before the volume scaling, for every role of the melodic family:
\* bass, sub_bass, melody, pad, pluck, arp, supersaw, future_bass,
\* reese_bass, pluck_bass, dubstep_bass and pitch_bend_bass.
RendersNote ==
    /\ pc \in {"note", "bend"}
    /\ pc' # "error"
    /\ track.type \in MelodicRoles
    /\ Automation(track) # ""

C24_AutomationOnEveryMelodicRole ==
    [][RendersNote => wave'.automated = Automation(track)]_vars

\* C27: the arp generator divides the note's samples into len(pattern)
\* contiguous sub-slices that together cover every sample of the buffer
\* exactly once, slice i uses the frequency multiplier pattern[i], and the
\* waveform alternates between saw and square from one slice to the next.
ArpDone == pc = "arped" /\ ~arp.rest
SlicesCover ==
    /\ arp.out_len = arp.x \div ArpDen
    /\ \A j \in 1..Len(arp.wave) :
          /\ arp.wave[j].writes = 1
          /\ arp.wave[j].slice \in 0..(Len(arp.pattern) - 1)
          /\ arp.wave[j].mult = arp.pattern[arp.wave[j].slice + 1]
    /\ \A j \in 1..(Len(arp.wave) - 1) : arp.wave[j].slice <= arp.wave[j + 1].slice
PureSaw(a) == a.saw > 0 /\ a.square = 0
PureSquare(a) == a.saw = 0 /\ a.square > 0

C27_SlicesCoverAndAlternate ==
    ArpDone =>
        /\ SlicesCover
        /\ \A j \in 1..Len(arp.wave) :
              /\ PureSaw(arp.wave[j]) \/ PureSquare(arp.wave[j])
              /\ \A k \in 1..Len(arp.wave) :
                    (arp.wave[k].slice = arp.wave[j].slice + 1) =>
                        (PureSaw(arp.wave[j]) <=> PureSquare(arp.wave[k]))

\* C27, amended: the same division into slices and the same multipliers, and
\* every slice carries the one blend 0.6 * saw + 0.4 * square: the
\* waveform does not alternate.
C27_SlicesCoverWithOneBlend ==
    ArpDone =>
        /\ SlicesCover
        /\ \A j \in 1..Len(arp.wave) :
              arp.wave[j].saw = 600 /\ arp.wave[j].square = 400

\* Five samples over the four slices of the default pattern.
C27_Witness ==
    /\ ArpDone
    /\ arp.pattern = <<2, 3, 4, 3>>
    /\ Len(arp.wave) = 5
    /\ arp.wave[1].slice = 0
    /\ arp.wave[2].slice = 1
    /\ arp.wave[4].slice = 2
    /\ arp.wave[5].slice = 3
    /\ arp.wave[5].mult = 3


\* C28: every accumulation into the master buffer targets a sample range
\* that lies entirely inside the buffer, start_sample + len(wave) <=
\* len(audio), and none raises a length-mismatch error: drum hits, clipped
\* notes, section-long FX and impacts alike.
C28_EveryRangeInsideBuffer ==
    place.kind # "none" =>
        /\ place.start_sample + place.wave_len <= place.audio_len
        /\ pc # "error"

====
